---- MODULE Spec2Model ----
(***************************************************************************)
(* Retrieval routing, response synthesis, private document store and       *)
(* conversation manager of the autism support assistant.                   *)
(*                                                                         *)
(* Texts are sequences of word tokens; lower() and the substring test      *)
(* ("term in query") are computed on these sequences.  Confidence values   *)
(* are percentages (0.95 is 95).                                           *)
(***************************************************************************)
EXTENDS Integers, Sequences, FiniteSets, TLC

VARIABLES
    syn,        \* the call of synthesize_response under study and its result
    rt,         \* a RetrievalRouter and its last route() call
    qdrant,     \* the points held by the vector store
    next_id,    \* number of point ids (uuid4) drawn so far
    services,   \* which external services answer
    managers,   \* the IntelligentConversationManager instances of the process
    turn,       \* the last call made on a manager and what it returned
    sessions,   \* st.session_state.user_profile of every browser session
    call,       \* the last call made on the private document store
    fn,         \* a text or search function, its arguments and what it returned
    runs        \* the ingest_user_documents calls that run at the same time

vars == <<syn, rt, qdrant, next_id, services, managers, turn, sessions, call, fn, runs>>

(***************************************************************************)
(* Bounds                                                                  *)
(***************************************************************************)
MaxVr == 4
\* manager calls per behaviour
MaxCalls == 3
\* point ids drawn per behaviour of the document store
MaxIds == 3

(***************************************************************************)
(* Text: a string is a sequence of tokens; str.lower() maps every token,   *)
(* and "a in b" is the contiguous-subsequence test.                        *)
(***************************************************************************)
lower_token(t) ==
    CASE t = "End" -> "end"
      [] t = "LIFE" -> "life"
      [] t = "Suicide" -> "suicide"
      [] t = "Treatment" -> "treatment" [] t = "Navigate" -> "navigate"
      [] t = "Autism" -> "autism"
      [] OTHER -> t

lower(text) == [i \in DOMAIN text |-> lower_token(text[i])]

\* single words that occur inside another word of the vocabulary
InsideToken == {<<"ot", "not">>, <<"age", "language">>}

token_match(t, k, whole) == t = k \/ (~whole /\ <<k, t>> \in InsideToken)

\* Python's "term in text" on strings
contains(text, term) ==
    \E i \in 0..(Len(text) - Len(term)) :
        \A j \in 1..Len(term) : token_match(text[i + j], term[j], Len(term) > 1)

(***************************************************************************)
(* Structured knowledge store (MongoDB collection autism_ai.knowledge).     *)
(* A dotted context path is the sequence of its segments; the empty        *)
(* sequence stands for the empty path and for None.                        *)
(***************************************************************************)
MongoDocs ==
    { [context_path |-> <<"diagnosed_no", "screening_options">>,
       response |-> <<"R_screening_options">>,
       source |-> "https://www.cdc.gov/autism/screening",
       routes |-> <<"M-CHAT">>, branches |-> <<>>],
      [context_path |-> <<"diagnosed_yes", "support_affording">>,
       response |-> <<"R_support_affording">>,
       source |-> "",
       routes |-> <<>>, branches |-> <<"Insurance", "Grants">>],
      [context_path |-> <<"general">>,
       response |-> <<"R_general">>,
       source |-> "internal note",
       routes |-> <<"Screening", "Diagnosis", "Treatment", "Support">>,
       branches |-> <<"What is Autism?", "Signs">>] }

ContextPaths ==
    {<<>>, <<"nonexistent", "path">>, <<"general">>,
     <<"diagnosed_no", "screening_options">>, <<"diagnosed_yes", "support_affording">>}

DiagnosisStatuses == {"diagnosed_no", "diagnosed_yes", "unknown"}

\* find_one({"context_path": context_path}); a database error is caught and
\* gives None (the empty set here).
get_mongodb_content(context_path, mongo_ok) ==
    IF mongo_ok THEN {d \in MongoDocs : d.context_path = context_path} ELSE {}

\* source.startswith("http")
HttpUrls == {"https://www.cdc.gov/autism/screening"}
startswith_http(source) == source \in HttpUrls

(***************************************************************************)
(* Vector-search hits.  A hit is the flattened {"score", "id", "payload"}  *)
(* dictionary; a field is "" when the payload has no such key.  A point id *)
(* (uuid4) is a pair <<kind, number>>.                                     *)
(***************************************************************************)
Hit(id, score, source, type, filename, user_id, content) ==
    [id |-> id, score |-> score, source |-> source, type |-> type,
     filename |-> filename, user_id |-> user_id, content |-> content]

\* payload.get("source") == "user_upload" or payload.get("type") == "user_document"
is_user_document(result) ==
    result.source = "user_upload" \/ result.type = "user_document"

has_user_docs(vector_results) ==
    \E i \in 1..Len(vector_results) : is_user_document(vector_results[i])

InSeq(x, s) == \E i \in 1..Len(s) : s[i] = x

Take(s, n) == SubSeq(s, 1, IF Len(s) < n THEN Len(s) ELSE n)

\* the loop that collects each distinct filename of the user-document hits,
\* in order of first appearance
RECURSIVE user_doc_filenames(_, _)
user_doc_filenames(vector_results, acc) ==
    IF vector_results = <<>> THEN acc
    ELSE LET result == Head(vector_results)
             acc2 == IF is_user_document(result) /\ ~InSeq(result.filename, acc)
                     THEN Append(acc, result.filename) ELSE acc
         IN user_doc_filenames(Tail(vector_results), acc2)

SourceEntry(source, type, filename) ==
    [source |-> source, type |-> type, filename |-> filename]

RECURSIVE MapUserDocSources(_)
MapUserDocSources(filenames) ==
    IF filenames = <<>> THEN <<>>
    ELSE <<SourceEntry(<<"user_upload">>, "user_document", Head(filenames))>>
         \o MapUserDocSources(Tail(filenames))

RECURSIVE MapWebSources(_)
MapWebSources(web_content) ==
    IF web_content = <<>> THEN <<>>
    ELSE <<SourceEntry(<<Head(web_content).source>>, "web_content", "")>>
         \o MapWebSources(Tail(web_content))

\* mutant: the context path is appended before the user documents
build_sources_context_first(context_path, vector_results, web_content) ==
    (IF context_path # <<>>
     THEN <<SourceEntry(context_path, "knowledge_base", "")>> ELSE <<>>)
    \o (IF has_user_docs(vector_results)
        THEN MapUserDocSources(Take(user_doc_filenames(vector_results, <<>>), 3))
        ELSE <<>>)
    \o MapWebSources(web_content)
    \o (IF vector_results # <<>> /\ ~has_user_docs(vector_results)
        THEN <<SourceEntry(<<"General knowledge base">>, "knowledge_base", "")>>
        ELSE <<>>)

\* the sources list of synthesize_response
build_sources(context_path, vector_results, web_content) ==
    (IF has_user_docs(vector_results)
     THEN MapUserDocSources(Take(user_doc_filenames(vector_results, <<>>), 3))
     ELSE <<>>)
    \o (IF context_path # <<>>
        THEN <<SourceEntry(context_path, "knowledge_base", "")>> ELSE <<>>)
    \o MapWebSources(web_content)
    \o (IF vector_results # <<>> /\ ~has_user_docs(vector_results)
        THEN <<SourceEntry(<<"General knowledge base">>, "knowledge_base", "")>>
        ELSE <<>>)

\* browse_external_source: None without a client or on any failure
browse_external_source(url, env) ==
    IF env.client /\ url # "" /\ env.web_ok THEN <<"web text">> ELSE <<>>

\* the loop over external_sources of synthesize_response
browse_web_content(mongodb_content, env) ==
    IF mongodb_content.source # "" /\ startswith_http(mongodb_content.source)
       /\ browse_external_source(mongodb_content.source, env) # <<>>
    THEN <<[source |-> mongodb_content.source,
            content |-> browse_external_source(mongodb_content.source, env)[1]]>>
    ELSE <<>>

ApologyText ==
    <<"I apologize, but I encountered an error processing your request.", "Please try again.">>

\* the chat completion is opaque text; with no client, or when the call
\* raises, the except branch returns the apology
_llm_synthesize(mongodb_content, env) ==
    IF env.client /\ env.llm_ok THEN <<"llm generated text">> ELSE ApologyText

_get_next_suggestions(mongodb_content, user_profile) ==
    Take(mongodb_content.routes \o mongodb_content.branches
         \o (IF user_profile.diagnosis_status = "diagnosed_no"
             THEN <<"Get screening recommendations", "Learn about early signs">>
             ELSE IF user_profile.diagnosis_status = "diagnosed_yes"
             THEN <<"Find support resources", "Explore treatment options">>
             ELSE <<>>), 5)

FallbackNo ==
    <<"I understand you're looking for information about autism support. Since your child hasn't been diagnosed yet, ...">>
FallbackYes ==
    <<"I'm here to help you with autism support resources. Since your child has been diagnosed, ...">>
FallbackUnknown ==
    <<"I'm here to help you with autism support and resources. I can provide information about ...">>

fallback_response(user_profile) ==
    [response |-> IF user_profile.diagnosis_status = "diagnosed_no" THEN FallbackNo
                  ELSE IF user_profile.diagnosis_status = "diagnosed_yes" THEN FallbackYes
                  ELSE FallbackUnknown,
     sources |-> <<>>,
     confidence |-> 50,
     next_suggestions |-> <<"Learn about screening options", "Find support resources",
                            "Explore treatment options">>]

\* the minimal content created when only patient documents exist
minimal_content(context_path) ==
    [context_path |-> context_path, response |-> <<"Information about">> \o context_path,
     source |-> "", routes |-> <<>>, branches |-> <<>>]

\* mutant: the negation of has_patient_docs is lost
use_fallback_inverted(found, vector_results) ==
    found = {} /\ has_user_docs(vector_results)

\* the fallback test of synthesize_response
use_fallback(found, vector_results) ==
    found = {} /\ ~has_user_docs(vector_results)

\* mutant: web content is tested before the user documents
confidence_of_web_first(vector_results, web_content) ==
    IF web_content # <<>> THEN 90
    ELSE IF has_user_docs(vector_results) THEN 95 ELSE 70

\* the confidence expression of the returned dictionary
confidence_of(vector_results, web_content) ==
    IF has_user_docs(vector_results) THEN 95
    ELSE IF web_content # <<>> THEN 90 ELSE 70

synthesize_response(context_path, user_profile, vector_results, env) ==
    LET found == get_mongodb_content(context_path, env.mongo_ok)
    IN IF use_fallback(found, vector_results)
       THEN fallback_response(user_profile)
       ELSE LET mongodb_content == IF found = {} THEN minimal_content(context_path)
                                   ELSE CHOOSE d \in found : TRUE
                web_content == browse_web_content(mongodb_content, env)
            IN [response |-> _llm_synthesize(mongodb_content, env),
                sources |-> build_sources(context_path, vector_results, web_content),
                confidence |-> confidence_of(vector_results, web_content),
                next_suggestions |-> _get_next_suggestions(mongodb_content, user_profile)]

(***************************************************************************)
(* Vector store access (rag/qdrant_client.py, rag/ingest_user_docs.py).    *)
(* A collection name f"{prefix}_{user_id}" is the pair <<prefix, user_id>>;*)
(* a store is the set of its points, each carrying the name of its         *)
(* collection, a collection that does not exist holding no point.  The     *)
(* score of a point is its similarity to the query of the call.            *)
(***************************************************************************)
SharedCollection == <<"kb_autism_support", "">>

\* mutant: one private collection for every user
user_docs_collection_shared(user_id) == <<"user_docs", "">>

\* collection_name = f"user_docs_{user_id}"
user_docs_collection(user_id) == <<"user_docs", user_id>>

Point(collection, id, score, source, type, filename, user_id, content) ==
    [collection |-> collection, id |-> id, score |-> score, source |-> source,
     type |-> type, filename |-> filename, user_id |-> user_id, content |-> content]

\* the formatted result {"score", "payload", "id"} of a stored point
hit_of(p) == Hit(p.id, p.score, p.source, p.type, p.filename, p.user_id, p.content)

\* points by descending score
RECURSIVE SortDesc(_)
SortDesc(S) ==
    IF S = {} THEN <<>>
    ELSE LET m == CHOOSE x \in S : \A y \in S : y.score <= x.score
         IN <<m>> \o SortDesc(S \ {m})

\* qdr.search(collection_name, query_vector, query_filter, limit): the filter
\* is MatchAny on payload user_id, or absent (the empty set here)
qdr_search(st, collection_name, any_of, limit) ==
    LET found == SortDesc({p \in st : /\ p.collection = collection_name
                                      /\ (any_of = {} \/ p.user_id \in any_of)})
    IN Take([i \in DOMAIN found |-> hit_of(found[i])], limit)

\* the query_filter built from user_id; None and "" build no filter
user_filter(user_id) == IF user_id # "" THEN {user_id, "public"} ELSE {}

search_with_user_filter(st, collection_name, user_id, k, qdr_ok) ==
    IF ~qdr_ok THEN <<>>
    ELSE qdr_search(st, collection_name, user_filter(user_id), k)

\* source = payload.get("source", "unknown"), then the filename when empty
diversity_source(hit) ==
    IF hit.source # "" THEN hit.source
    ELSE IF hit.filename # "" THEN hit.filename ELSE "unknown"

SeqIds(sel) == {sel[i].id : i \in 1..Len(sel)}

\* first pass of search_with_diversity
RECURSIVE diversity_first_pass(_, _, _, _, _)
diversity_first_pass(candidates, k, min_sources, selected, sources_seen) ==
    IF candidates = <<>> \/ Len(selected) >= k THEN selected
    ELSE LET hit == Head(candidates)
             source == diversity_source(hit)
         IN IF source \notin sources_seen \/ Cardinality(sources_seen) < min_sources
            THEN diversity_first_pass(Tail(candidates), k, min_sources,
                                      Append(selected, hit), sources_seen \cup {source})
            ELSE diversity_first_pass(Tail(candidates), k, min_sources,
                                      selected, sources_seen)

\* second pass: fill the remaining slots with the best remaining hits
RECURSIVE diversity_second_pass(_, _, _)
diversity_second_pass(remaining, k, selected) ==
    IF remaining = <<>> \/ Len(selected) >= k THEN selected
    ELSE diversity_second_pass(Tail(remaining), k, Append(selected, Head(remaining)))

\* list.sort(key=score, reverse=True): stable, descending
RECURSIVE InsertDesc(_, _)
InsertDesc(sorted, x) ==
    IF sorted = <<>> THEN <<x>>
    ELSE IF Head(sorted).score >= x.score
         THEN <<Head(sorted)>> \o InsertDesc(Tail(sorted), x)
         ELSE <<x>> \o sorted

RECURSIVE sort_by_score(_)
sort_by_score(results) ==
    IF results = <<>> THEN <<>>
    ELSE InsertDesc(sort_by_score(SubSeq(results, 1, Len(results) - 1)),
                    results[Len(results)])

search_with_diversity(st, collection_name, user_id, k, min_sources, qdr_ok) ==
    IF ~qdr_ok THEN <<>>
    ELSE LET candidates == qdr_search(st, collection_name, user_filter(user_id), k * 3)
             selected == diversity_first_pass(candidates, k, min_sources, <<>>, {})
             remaining == SelectSeq(candidates, LAMBDA h : h.id \notin SeqIds(selected))
         IN Take(sort_by_score(diversity_second_pass(remaining, k, selected)), k)

\* search_user_documents: [] when the query cannot be embedded
search_user_documents(st, user_id, limit, env) ==
    IF ~env.embed_ok THEN <<>>
    ELSE search_with_user_filter(st, user_docs_collection(user_id), user_id, limit,
                                 env.qdr_ok)

(***************************************************************************)
(* Retrieval router (retrieval/retrieval_router.py)                        *)
(***************************************************************************)
\* critical terms configured in the knowledge base
\* (router.safety_rules.critical_terms, read by KnowledgeAdapter.get_safety_rules)
KbCriticalTerms == {<<"end", "his", "life">>, <<"suicide">>}

\* RetrievalRouter.__init__(ka): self.safety = set(), whatever ka holds
RetrievalRouter_init(ka_critical_terms) == [safety |-> {}]

GuidedFlows == {"diagnosed_no", "diagnosed_yes", "adult_self"}

\* user_profile.get("user_id", "public"); "" stands for a missing key
profile_user_id(user_profile) ==
    IF user_profile.user_id = "" THEN "public" ELSE user_profile.user_id

\* raised: the searches of the private documents that raise an exception.
\* When both raise, user_results is never bound; the log line that reads it
\* raises NameError and the outer handler returns [].
_get_vector_results(st, user_profile, limit, env, raised) ==
    IF ~env.embed_ok THEN <<>>
    ELSE LET user_id == profile_user_id(user_profile)
             shared_results == search_with_diversity(st, SharedCollection, user_id,
                                                     limit \div 2, 2, env.qdr_ok)
         IN IF user_id = "public"
            THEN Take(sort_by_score(shared_results), limit)
            ELSE IF "search_user_documents" \notin raised
            THEN Take(sort_by_score(shared_results
                                    \o search_user_documents(st, user_id, limit \div 2, env)),
                      limit)
            ELSE IF "search_with_user_filter" \notin raised
            THEN Take(sort_by_score(shared_results
                                    \o search_with_user_filter(st, user_docs_collection(user_id),
                                                               user_id, limit \div 2,
                                                               env.qdr_ok)),
                      limit)
            ELSE <<>>

safety_term_detected(router, user_query) ==
    \E term \in router.safety : contains(lower(user_query), lower(term))

is_guided(context_path) ==
    context_path # <<>> /\ \E flow \in GuidedFlows : contains(context_path, <<flow>>)

\* mutant: the guided step fetches as many candidates as a free-form query
route_blend_unlimited(router, user_query, user_profile, context_path, st, env, raised) ==
    IF safety_term_detected(router, user_query)
    THEN [mode |-> "mongo_only", results |-> <<>>]
    ELSE IF is_guided(context_path)
    THEN [mode |-> "blend",
          results |-> _get_vector_results(st, user_profile, 6, env, raised)]
    ELSE [mode |-> "vector_only",
          results |-> _get_vector_results(st, user_profile, 6, env, raised)]

route(router, user_query, user_profile, context_path, st, env, raised) ==
    IF safety_term_detected(router, user_query)
    THEN [mode |-> "mongo_only", results |-> <<>>]
    ELSE IF is_guided(context_path)
    THEN [mode |-> "blend",
          results |-> _get_vector_results(st, user_profile, 3, env, raised)]
    ELSE [mode |-> "vector_only",
          results |-> _get_vector_results(st, user_profile, 6, env, raised)]

\* get_safety_warning: "" (the empty text) when no term is detected
detected_terms(router, query) ==
    {term \in router.safety : contains(lower(query), lower(term))}

RECURSIVE join_terms(_)
join_terms(terms) ==
    IF terms = {} THEN <<>>
    ELSE LET t == CHOOSE x \in terms : TRUE
         IN t \o (IF terms \ {t} = {} THEN <<>> ELSE <<",">> \o join_terms(terms \ {t}))

get_safety_warning(router, query) ==
    IF detected_terms(router, query) # {}
    THEN <<"Safety Alert: Detected critical terms:">>
         \o join_terms(detected_terms(router, query))
         \o <<"Please", "contact", "a", "healthcare", "professional", "immediately">>
    ELSE <<>>

(***************************************************************************)
(* Conversation tree (knowledge/knowledge_adapter.py)                      *)
(***************************************************************************)
MainFive == <<"general", "screening", "diagnosis", "treatment", "support">>
TopKeys == {MainFive[i] : i \in 1..5}
NodeKeys == {"label", "description", "content", "routes", "branches"}

Route(keywords, next_path) == [keywords |-> keywords, next_path |-> next_path]

\* _build_conversation_tree: the routes of each top-level node
TreeRoutes(key) ==
    CASE key = "general" ->
           << Route(<<"screening", "assessment", "evaluate", "check">>, <<"screening">>),
              Route(<<"diagnosis", "diagnosed", "evaluation", "confirmed">>, <<"diagnosis">>),
              Route(<<"treatment", "therapy", "intervention", "help">>, <<"treatment">>),
              Route(<<"support", "resources", "help", "services">>, <<"support">>) >>
      [] key = "screening" ->
           << Route(<<"age", "young", "baby", "toddler", "preschool">>, <<"screening", "early_childhood">>),
              Route(<<"school", "older", "child", "teen">>, <<"screening", "school_age">>),
              Route(<<"adult", "grown", "older">>, <<"screening", "adult">>) >>
      [] key = "diagnosis" ->
           << Route(<<"pediatrician", "doctor", "primary">>, <<"diagnosis", "pediatrician">>),
              Route(<<"specialist", "psychologist", "neurologist">>, <<"diagnosis", "specialist">>),
              Route(<<"evaluation", "testing", "assessment">>, <<"diagnosis", "evaluation">>) >>
      [] key = "treatment" ->
           << Route(<<"early", "young", "baby", "toddler">>, <<"treatment", "early_intervention">>),
              Route(<<"speech", "language", "communication">>, <<"treatment", "speech_therapy">>),
              Route(<<"occupational", "ot", "daily", "skills">>, <<"treatment", "occupational_therapy">>),
              Route(<<"behavioral", "aba", "applied">>, <<"treatment", "behavioral_therapy">>) >>
      [] OTHER ->
           << Route(<<"group", "community", "other", "families">>, <<"support", "groups">>),
              Route(<<"school", "education", "iep", "special">>, <<"support", "education">>),
              Route(<<"financial", "insurance", "cost", "money">>, <<"support", "financial">>),
              Route(<<"crisis", "emergency", "urgent", "help">>, <<"support", "crisis">>) >>

\* the branches of each top-level node
TreeBranches(key) ==
    CASE key = "general" -> << <<"general", "what_is_autism">>, <<"general", "signs_symptoms">>,
                               <<"general", "causes">> >>
      [] key = "screening" -> << <<"screening", "mchat">>, <<"screening", "ados">>,
                                 <<"screening", "adi_r">> >>
      [] key = "diagnosis" -> << <<"diagnosis", "preparation">>, <<"diagnosis", "results">> >>
      [] key = "treatment" -> << <<"treatment", "individualized_plan">>,
                                 <<"treatment", "family_involvement">> >>
      [] OTHER -> << <<"support", "local_resources">>, <<"support", "online_resources">> >>

\* mutant: the initial context lies under the namespace of the diagnosis status
get_initial_context_in_flow(user_profile) ==
    IF user_profile.diagnosis_status = "diagnosed_no"
    THEN <<"diagnosed_no", "screening_options">>
    ELSE IF user_profile.diagnosis_status = "diagnosed_yes"
    THEN <<"diagnosed_yes", "support_affording">>
    ELSE IF user_profile.role = "adult_self" THEN <<"screening", "adult">>
    ELSE <<"general">>

get_initial_context(user_profile) ==
    IF user_profile.diagnosis_status = "diagnosed_no"
    THEN (IF user_profile.child_age \in {"0-3", "3-5"} THEN <<"screening", "early_childhood">>
          ELSE IF user_profile.child_age \in {"6-12", "13-17"} THEN <<"screening", "school_age">>
          ELSE <<"screening">>)
    ELSE IF user_profile.diagnosis_status = "diagnosed_yes"
    THEN (IF user_profile.child_age \in {"0-3", "3-5"} THEN <<"treatment", "early_intervention">>
          ELSE <<"treatment">>)
    ELSE IF user_profile.role = "adult_self" THEN <<"screening", "adult">>
    ELSE <<"general">>

SeqToSet(q) == {q[i] : i \in 1..Len(q)}

MainFivePaths == {<<MainFive[i]>> : i \in 1..5}

\* get_available_paths: the result list as a set (the code returns
\* list(set(...)) except for the two fixed lists)
get_available_paths(context_path) ==
    IF context_path = <<>> THEN MainFivePaths
    ELSE IF context_path[1] \notin TopKeys THEN {<<"general">>}
    ELSE IF Len(context_path) = 1
    THEN {TreeRoutes(context_path[1])[i].next_path :
              i \in 1..Len(TreeRoutes(context_path[1]))}
         \cup SeqToSet(TreeBranches(context_path[1]))
         \cup MainFivePaths
    ELSE IF context_path[2] \in NodeKeys /\ Len(context_path) = 2
    THEN {SubSeq(context_path, 1, 1)} \cup MainFivePaths
    ELSE {<<"general">>}

\* get_node: the kind of value reached ("dict" for a tree node, "str" or
\* "list" for an attribute of a node, "none" for None) and the node's key
get_node(context_path) ==
    IF context_path = <<>> THEN [kind |-> "none", key |-> ""]
    ELSE IF context_path[1] \notin TopKeys THEN [kind |-> "dict", key |-> "general"]
    ELSE IF Len(context_path) = 1 \/ context_path[2] \notin NodeKeys
    THEN [kind |-> "dict", key |-> context_path[1]]
    ELSE IF context_path[2] \in {"routes", "branches"}
    THEN [kind |-> "list", key |-> context_path[1]]
    ELSE [kind |-> "str", key |-> context_path[1]]

(***************************************************************************)
(* Fact extraction (_extract_and_remember_facts)                           *)
(***************************************************************************)
NumTokens == {"2", "4", "9", "15", "30"}
num_value(t) ==
    CASE t = "2" -> 2 [] t = "4" -> 4 [] t = "9" -> 9 [] t = "15" -> 15 [] OTHER -> 30

capitalize_token(t) ==
    CASE t = "tucker" -> "Tucker" [] t = "has" -> "Has" [] t = "is" -> "Is"
      [] t = "emma" -> "Emma" [] OTHER -> t

At(text, i) == IF i >= 1 /\ i <= Len(text) THEN text[i] ELSE ""

\* positions of the digits matched by each of the four age patterns
age_pattern_hits(t, n) ==
    LET digits == {i \in 1..Len(t) : t[i] \in NumTokens}
    IN CASE n = 1 -> {i \in digits : \/ At(t, i - 1) \in {"he's", "she's"}
                                     \/ (At(t, i - 1) = "is" /\ At(t, i - 2) \in {"child", "kid"})}
         [] n = 2 -> {i \in digits : At(t, i + 1) \in {"year", "years", "yr", "yrs"}
                                     /\ At(t, i + 2) = "old"}
         [] n = 3 -> {i \in digits : \/ At(t, i - 1) = "age"
                                     \/ (At(t, i - 1) = "is" /\ At(t, i - 2) = "age")}
         [] OTHER -> {i \in digits :
                        LET k == IF At(t, i + 1) \in {"year", "years"} THEN i + 2 ELSE i + 1
                        IN At(t, k) = "old" \/ (At(t, k) = "of" /\ At(t, k + 1) = "age")}

MinOf(S) == CHOOSE x \in S : \A y \in S : x <= y

\* the age of the first pattern that matches, 0 when none does
extract_age(t) ==
    IF age_pattern_hits(t, 1) # {} THEN num_value(t[MinOf(age_pattern_hits(t, 1))])
    ELSE IF age_pattern_hits(t, 2) # {} THEN num_value(t[MinOf(age_pattern_hits(t, 2))])
    ELSE IF age_pattern_hits(t, 3) # {} THEN num_value(t[MinOf(age_pattern_hits(t, 3))])
    ELSE IF age_pattern_hits(t, 4) # {} THEN num_value(t[MinOf(age_pattern_hits(t, 4))])
    ELSE 0

age_band(age) ==
    IF age <= 3 THEN "0-3" ELSE IF age <= 5 THEN "3-5" ELSE IF age <= 12 THEN "6-12"
    ELSE IF age <= 17 THEN "13-17" ELSE "18+"

DiagnosedYesPhrases ==
    {<<"diagnosed", "with", "autism">>, <<"has", "autism">>, <<"autism", "diagnosis">>,
     <<"confirmed", "autism">>}
DiagnosedNoPhrases ==
    {<<"not", "diagnosed">>, <<"no", "diagnosis">>, <<"haven't", "been", "diagnosed">>,
     <<"waiting", "for", "diagnosis">>}

Kin == {"son", "daughter", "child"}

\* positions of the name captured by each of the four name patterns
name_pattern_hits(t, n) ==
    LET pos == 1..Len(t)
    IN CASE n = 1 -> {i \in pos : At(t, i - 1) \in Kin /\ At(t, i - 2) = "my"}
         [] n = 2 -> {i \in pos : At(t, i - 1) = "is" /\ At(t, i - 2) = "name"
                                  /\ At(t, i - 3) \in {"his", "her"}}
         [] n = 3 -> {i \in pos : At(t, i + 1) = "is" /\ At(t, i + 2) = "my"
                                  /\ At(t, i + 3) \in Kin}
         [] OTHER -> {i \in pos : At(t, i - 1) \in {"called", "named"}}

extract_name(t) ==
    IF name_pattern_hits(t, 1) # {} THEN capitalize_token(t[MinOf(name_pattern_hits(t, 1))])
    ELSE IF name_pattern_hits(t, 2) # {} THEN capitalize_token(t[MinOf(name_pattern_hits(t, 2))])
    ELSE IF name_pattern_hits(t, 3) # {} THEN capitalize_token(t[MinOf(name_pattern_hits(t, 3))])
    ELSE IF name_pattern_hits(t, 4) # {} THEN capitalize_token(t[MinOf(name_pattern_hits(t, 4))])
    ELSE ""

ConcernTypes == <<"speech", "social", "behavior", "development">>
concern_keywords(type) ==
    CASE type = "speech" -> {<<"speech">>, <<"talking">>, <<"speaking">>, <<"language">>,
                             <<"words">>, <<"communication">>}
      [] type = "social" -> {<<"social">>, <<"friends">>, <<"playing">>, <<"interaction">>,
                             <<"eye", "contact">>}
      [] type = "behavior" -> {<<"behavior">>, <<"meltdown">>, <<"tantrums">>, <<"repetitive">>,
                               <<"stimming">>}
      [] OTHER -> {<<"development">>, <<"milestones">>, <<"delayed">>, <<"behind">>}

RECURSIVE add_concerns(_, _, _)
add_concerns(concerns, t, n) ==
    IF n > Len(ConcernTypes) THEN concerns
    ELSE LET type == ConcernTypes[n]
             hit == \E kw \in concern_keywords(type) : contains(t, kw)
         IN add_concerns(IF hit /\ ~InSeq(type, concerns) THEN Append(concerns, type)
                         ELSE concerns, t, n + 1)

_extract_and_remember_facts(user_profile, user_input) ==
    LET t == lower(user_input)
        age == extract_age(t)
        band == age_band(age)
        p1 == IF age_pattern_hits(t, 1) \cup age_pattern_hits(t, 2) \cup age_pattern_hits(t, 3)
                 \cup age_pattern_hits(t, 4) # {} /\ user_profile.child_age # band
              THEN [user_profile EXCEPT !.child_age = band, !.specific_age = age]
              ELSE user_profile
        p2 == IF \E ph \in DiagnosedYesPhrases : contains(t, ph)
              THEN [p1 EXCEPT !.diagnosis_status = "diagnosed_yes"]
              ELSE IF \E ph \in DiagnosedNoPhrases : contains(t, ph)
              THEN [p1 EXCEPT !.diagnosis_status = "diagnosed_no"]
              ELSE p1
        name == extract_name(t)
        p3 == IF name # "" THEN [p2 EXCEPT !.child_name = name] ELSE p2
    IN [p3 EXCEPT !.concerns = add_concerns(p3.concerns, t, 1)]

(***************************************************************************)
(* Conversation manager (knowledge/intelligent_conversation_manager.py)    *)
(***************************************************************************)
\* a user profile dictionary; "" (0 for specific_age) stands for a missing key
Profile(user_id, role, diagnosis_status, child_age) ==
    [user_id |-> user_id, role |-> role, diagnosis_status |-> diagnosis_status,
     child_age |-> child_age, child_name |-> "", concerns |-> <<>>, specific_age |-> 0]

\* IntelligentConversationManager.__init__; memory_manager "" is None, and
\* RetrievalRouter() is built without a knowledge adapter
IntelligentConversationManager_init ==
    [retrieval_router |-> RetrievalRouter_init({}),
     current_context_path |-> <<>>,
     conversation_history |-> <<>>,
     user_profile |-> Profile("default", "", "", ""),
     available_paths |-> {},
     memory_manager |-> ""]

\* dict.update with the keys present in the argument
dict_update(user_profile, arg) ==
    [user_profile EXCEPT
        !.user_id = IF arg.user_id # "" THEN arg.user_id ELSE @,
        !.role = IF arg.role # "" THEN arg.role ELSE @,
        !.diagnosis_status = IF arg.diagnosis_status # "" THEN arg.diagnosis_status ELSE @,
        !.child_age = IF arg.child_age # "" THEN arg.child_age ELSE @]

HistoryEntry(role, content, context_path, sources, next_suggestions) ==
    [role |-> role, content |-> content, context_path |-> context_path,
     sources |-> sources, next_suggestions |-> next_suggestions]

\* the dictionary returned by a manager call; mode "" is a missing key
TurnResult(response, context_path, next_suggestions, available_paths, confidence, sources, mode, safety_warning) ==
    [response |-> response, context_path |-> context_path,
     next_suggestions |-> next_suggestions, available_paths |-> available_paths,
     confidence |-> confidence, sources |-> sources, mode |-> mode,
     safety_warning |-> safety_warning]

\* store_conversation_memory: the store, the id counter and the operations
\* performed, in order
store_conversation_memory(st, n, user_id, memory_type, content, e) ==
    IF ~e.qdr_ok THEN [st |-> st, n |-> n, ops |-> <<"ensure_collection">>]
    ELSE IF ~e.embed_ok THEN [st |-> st, n |-> n, ops |-> <<"ensure_collection", "embed">>]
    ELSE [st |-> st \cup {Point(<<memory_type, user_id>>, <<"m", n>>, 50,
                                "conversation_memory", memory_type, "", user_id, content)},
          n |-> n + 1,
          ops |-> <<"ensure_collection", "embed", "upsert">>]

\* _store_conversation_memory: nothing without a memory manager
_store_conversation_memory(m, st, n, content, e) ==
    IF m.memory_manager = "" THEN [st |-> st, n |-> n, ops |-> <<>>]
    ELSE store_conversation_memory(st, n, m.memory_manager, "chat_history", content, e)

(***************************************************************************)
(* Conversation memory (knowledge/conversation_memory_manager.py,          *)
(* rag/qdrant_client.py)                                                   *)
(***************************************************************************)
\* self.collections
MemoryTypes == <<"chat_history", "insights", "prefs", "learning">>

\* store_chat_message
store_chat_message(st, n, user_id, message, e) ==
    store_conversation_memory(st, n, user_id, "chat_history", message.content, e)

StrategyIndicators ==
    {"worked", "helped", "effective", "successful", "improved", "better", "strategy",
     "technique", "approach", "method"}

\* _extract_strategies: the assistant messages that hold an indicator
_extract_strategies(conversation) ==
    SelectSeq(conversation,
              LAMBDA message : /\ message.role = "assistant"
                               /\ \E i \in 1..Len(message.content) :
                                     lower_token(message.content[i]) \in StrategyIndicators)

\* extract_and_store_insights: the insights, then the preferences (a
\* dictionary of four keys, never empty), then the strategies when there are
\* some
extract_and_store_insights(st, n, user_id, conversation, e) ==
    LET s1 == store_conversation_memory(st, n, user_id, "insights", <<"insights">>, e)
        s2 == store_conversation_memory(s1.st, s1.n, user_id, "prefs",
                                        <<"user_preferences">>, e)
        s3 == IF _extract_strategies(conversation) # <<>>
              THEN store_conversation_memory(s2.st, s2.n, user_id, "learning",
                                             <<"successful_strategies">>, e)
              ELSE [st |-> s2.st, n |-> s2.n, ops |-> <<>>]
    IN [st |-> s3.st, n |-> s3.n, ops |-> s1.ops \o s2.ops \o s3.ops]

\* the loop of search_conversation_memory over the collections from i on
RECURSIVE search_collections(_, _, _, _, _, _)
search_collections(st, user_id, types, i, limit, e) ==
    IF i > Len(types) THEN <<>>
    ELSE search_with_user_filter(st, <<types[i], user_id>>, user_id, limit, e.qdr_ok)
         \o search_collections(st, user_id, types, i + 1, limit, e)

\* search_conversation_memory; memory_type "" stands for None
search_conversation_memory(st, user_id, memory_type, limit, e) ==
    IF ~e.embed_ok THEN <<>>
    ELSE Take(sort_by_score(search_collections(st, user_id,
                                               IF memory_type # "" THEN <<memory_type>>
                                               ELSE MemoryTypes,
                                               1, limit, e)),
              limit)

\* the keys of the dictionary retrieve_relevant_context returns
ContextCategories == {"chat_history", "insights", "preferences", "learning"}

\* retrieve_relevant_context: the results whose payload type is a key of the
\* dictionary, under that key
retrieve_relevant_context(st, user_id, limit, e) ==
    [category \in ContextCategories |->
        SelectSeq(search_conversation_memory(st, user_id, "", limit, e),
                  LAMBDA result : result.type = category)]

\* _extract_and_store_insights, called when the history length is a multiple of 10
_extract_and_store_insights(m, history, st, n, e) ==
    IF Len(history) % 10 = 0 /\ m.memory_manager # "" /\ Len(history) > 10
    THEN extract_and_store_insights(st, n, m.memory_manager, history, e)
    ELSE [st |-> st, n |-> n, ops |-> <<>>]

\* "path.lower() in user_input.lower()": a dotted path of several segments is
\* one word, which no utterance of the vocabulary holds
path_in_text(path, user_input) == Len(path) = 1 /\ contains(lower(user_input), path)

FirstOf(q, S) == q[MinOf({i \in 1..Len(q) : q[i] \in S})]

\* the routes of the node whose keyword occurs in the input, in order
matching_routes(key, user_input) ==
    SelectSeq(TreeRoutes(key),
              LAMBDA r : \E i \in 1..Len(r.keywords) :
                            contains(lower(user_input), <<lower_token(r.keywords[i])>>))

\* _determine_next_context: the set of outcomes; available_paths built by
\* list(set(...)) is iterated in any order, and a node that is not a
\* dictionary makes best_match.get raise
_determine_next_context(m, user_input) ==
    LET direct == {path \in m.available_paths : path_in_text(path, user_input)}
        best_match == get_node(m.current_context_path)
    IN IF direct # {}
       THEN (IF m.available_paths = MainFivePaths
             THEN {[raise |-> FALSE,
                    path |-> <<FirstOf(MainFive, {d[1] : d \in direct})>>]}
             ELSE {[raise |-> FALSE, path |-> d] : d \in direct})
       ELSE IF best_match.kind \in {"str", "list"}
       THEN {[raise |-> TRUE, path |-> <<>>]}
       ELSE IF best_match.kind = "dict" /\ matching_routes(best_match.key, user_input) # <<>>
       THEN {[raise |-> FALSE, path |-> matching_routes(best_match.key, user_input)[1].next_path]}
       ELSE {[raise |-> FALSE, path |-> m.current_context_path]}

\* operations performed by RetrievalRouter.route
retrieval_ops(router, user_query, user_profile, e) ==
    <<"route">> \o
    (IF safety_term_detected(router, user_query) THEN <<>>
     ELSE <<"embed">> \o
          (IF ~e.embed_ok THEN <<>>
           ELSE <<"search">> \o
                (IF profile_user_id(user_profile) # "public"
                 THEN <<"embed", "search">> ELSE <<>>)))

\* operations performed by synthesize_response
synthesis_ops(context_path, vector_results, e) ==
    <<"synthesize">> \o
    (IF use_fallback(get_mongodb_content(context_path, e.mongo_ok), vector_results)
     THEN <<>> ELSE <<"generate">>)

start_conversation(m, user_profile, e) ==
    LET profile == dict_update(m.user_profile, user_profile)
        initial_path == get_initial_context(profile)
        initial_response == synthesize_response(initial_path, profile, <<>>, e)
        available == get_available_paths(initial_path)
    IN [m |-> [m EXCEPT !.user_profile = profile,
                        !.memory_manager = profile.user_id,
                        !.current_context_path = initial_path,
                        !.available_paths = available,
                        !.conversation_history =
                            <<HistoryEntry("assistant", initial_response.response, initial_path,
                                           initial_response.sources,
                                           initial_response.next_suggestions)>>],
        ret |-> TurnResult(initial_response.response, initial_path,
                           initial_response.next_suggestions, available, 0, <<>>, "", FALSE),
        ops |-> synthesis_ops(initial_path, <<>>, e)]

ErrorText ==
    <<"I apologize, but I encountered an error processing your request.", "Please try again.">>

\* mutant: the history is replaced by the assistant entry of the turn
turn_completed_history_reset(m1, h1, next_context, mode, response, available, stored, ops) ==
    [m |-> [m1 EXCEPT !.current_context_path = next_context,
                      !.available_paths = available,
                      !.conversation_history =
                          <<HistoryEntry("assistant", response.response,
                                         next_context, response.sources,
                                         response.next_suggestions)>>],
     st |-> stored.st, n |-> stored.n, ops |-> ops \o stored.ops,
     ret |-> TurnResult(response.response, next_context, response.next_suggestions,
                        available, response.confidence, response.sources, mode, FALSE)]

\* the turn once the assistant message is stored: lines 181-209
turn_completed(m1, h1, next_context, mode, response, available, stored, ops) ==
    [m |-> [m1 EXCEPT !.current_context_path = next_context,
                      !.available_paths = available,
                      !.conversation_history =
                          Append(h1, HistoryEntry("assistant", response.response,
                                                  next_context, response.sources,
                                                  response.next_suggestions))],
     st |-> stored.st, n |-> stored.n, ops |-> ops \o stored.ops,
     ret |-> TurnResult(response.response, next_context, response.next_suggestions,
                        available, response.confidence, response.sources, mode, FALSE)]

\* the turn from the synthesized response on: lines 175-199
turn_responded(m1, h1, st, n, next_context, mode, response, ops, e) ==
    turn_completed(m1, h1, next_context, mode, response, get_available_paths(next_context),
                   _store_conversation_memory(m1, st, n, response.response, e), ops)

\* the except branch of process_user_response: lines 211-223
turn_failed(m, st, n, ops) ==
    [m |-> m, st |-> st, n |-> n, ops |-> ops,
     ret |-> TurnResult(ErrorText, m.current_context_path, <<>>, {}, 0, <<>>, "error", FALSE)]

\* the turn from the routing decision on: lines 154-173; the three branches
\* call synthesize_response with the same context path and profile, and an
\* exception that leaves it reaches the except branch after line 139 has
\* assigned current_context_path
turn_routed(m1, h1, st, n, next_context, mode, vector_results, ops, e, raised) ==
    IF raised = "synthesize_response"
    THEN turn_failed([m1 EXCEPT !.current_context_path = next_context], st, n,
                     ops \o <<"synthesize">>)
    ELSE turn_responded(m1, h1, st, n, next_context, mode,
                        synthesize_response(next_context, m1.user_profile, vector_results, e),
                        ops \o synthesis_ops(next_context, vector_results, e), e)

\* the turn from the chosen context on: lines 138-152; an exception that
\* leaves route is caught at line 150 and the turn goes on with
\* ("vector_only", [])
turn_in_context(m1, h1, st, n, user_input, next_context, routed, ops, e, raised) ==
    IF raised = "route"
    THEN turn_routed(m1, h1, st, n, next_context, "vector_only", <<>>,
                     ops \o <<"route">>, e, raised)
    ELSE turn_routed(m1, h1, st, n, next_context, routed.mode,
                     IF routed.mode = "mongo_only" THEN <<>> ELSE routed.results,
                     ops \o retrieval_ops(m1.retrieval_router, user_input, m1.user_profile, e),
                     e, raised)

\* the turn from the safety check on: lines 117-136 and the except branch
turn_checked(m, m1, stored, user_input, selected_path, determined, safety_warning, e, raised) ==
    IF safety_warning # <<>>
    THEN [m |-> m1, st |-> stored.st, n |-> stored.n,
          ops |-> stored.ops \o <<"safety_check">>,
          ret |-> TurnResult(safety_warning, m.current_context_path, <<>>,
                             m.available_paths, 100, <<>>, "", TRUE)]
    ELSE IF selected_path = <<>> /\ determined.raise
    THEN turn_failed(m1, stored.st, stored.n, stored.ops \o <<"safety_check">>)
    ELSE turn_in_context(m1, m1.conversation_history, stored.st, stored.n, user_input,
                         IF selected_path # <<>> THEN selected_path ELSE determined.path,
                         route(m1.retrieval_router, user_input, m1.user_profile,
                               IF selected_path # <<>> THEN selected_path ELSE determined.path,
                               stored.st, e, {}),
                         stored.ops \o <<"safety_check">>, e, raised)

\* the user message stored, then the periodic insights: lines 106-115
user_message_stored(m, h1, s1, e) ==
    [st |-> _extract_and_store_insights(m, h1, s1.st, s1.n, e).st,
     n |-> _extract_and_store_insights(m, h1, s1.st, s1.n, e).n,
     ops |-> s1.ops \o _extract_and_store_insights(m, h1, s1.st, s1.n, e).ops]

\* process_user_response for one outcome of _determine_next_context; raised
\* names the call of the turn ("route", "synthesize_response") that an
\* unexpected exception leaves, "" when there is none
process_user_response(m, st, n, user_input, selected_path, determined, e, raised) ==
    turn_checked(m,
                 [m EXCEPT !.user_profile = _extract_and_remember_facts(@, user_input),
                           !.conversation_history =
                               Append(@, HistoryEntry("user", user_input, <<>>, <<>>, <<>>))],
                 user_message_stored(m, Append(m.conversation_history,
                                               HistoryEntry("user", user_input, <<>>, <<>>, <<>>)),
                                     _store_conversation_memory(m, st, n, user_input, e), e),
                 user_input, selected_path, determined,
                 get_safety_warning(m.retrieval_router, user_input), e, raised)

(***************************************************************************)
(* Chunking (rag/ingest_user_docs.py chunk_text).  Here a text is the      *)
(* sequence of its characters.                                             *)
(***************************************************************************)
Whitespace == {" ", "\n"}

RECURSIVE lstrip(_)
lstrip(s) == IF s # <<>> /\ Head(s) \in Whitespace THEN lstrip(Tail(s)) ELSE s

RECURSIVE rstrip(_)
rstrip(s) ==
    IF s # <<>> /\ s[Len(s)] \in Whitespace THEN rstrip(SubSeq(s, 1, Len(s) - 1)) ELSE s

\* str.strip()
strip(s) == lstrip(rstrip(s))

\* str.split(sep) for a separator of two characters: piece is the part read
\* since the last separator
RECURSIVE split_from(_, _, _)
split_from(s, sep, piece) ==
    IF s = <<>> THEN <<piece>>
    ELSE IF Len(s) >= 2 /\ SubSeq(s, 1, 2) = sep
    THEN <<piece>> \o split_from(SubSeq(s, 3, Len(s)), sep, <<>>)
    ELSE split_from(Tail(s), sep, Append(piece, Head(s)))

split(s, sep) == split_from(s, sep, <<>>)

\* len(chunk) * 0.25 > max_tokens
over_budget(chunk, max_tokens) == Len(chunk) > 4 * max_tokens

\* the loop over the sentences, then the last chunk
RECURSIVE chunk_sentences(_, _, _, _)
chunk_sentences(sentences, max_tokens, chunks, current_chunk) ==
    IF sentences = <<>>
    THEN (IF strip(current_chunk) # <<>> THEN Append(chunks, strip(current_chunk))
          ELSE chunks)
    ELSE IF over_budget(current_chunk \o Head(sentences), max_tokens) /\ current_chunk # <<>>
    THEN chunk_sentences(Tail(sentences), max_tokens,
                         Append(chunks, strip(current_chunk)), Head(sentences))
    ELSE chunk_sentences(Tail(sentences), max_tokens, chunks,
                         current_chunk \o Head(sentences) \o <<".", " ">>)

\* the stripped, non-empty paragraphs of a chunk
paragraphs_of(chunk) ==
    SelectSeq([i \in DOMAIN split(chunk, <<"\n", "\n">>) |->
                  strip(split(chunk, <<"\n", "\n">>)[i])],
              LAMBDA para : para # <<>>)

\* "Ensure chunks aren't too long": a long chunk is replaced by its paragraphs
RECURSIVE split_long_chunks(_, _)
split_long_chunks(chunks, max_tokens) ==
    IF chunks = <<>> THEN <<>>
    ELSE (IF over_budget(Head(chunks), max_tokens) THEN paragraphs_of(Head(chunks))
          ELSE <<Head(chunks)>>)
         \o split_long_chunks(Tail(chunks), max_tokens)

chunk_text(text, max_tokens) ==
    split_long_chunks(chunk_sentences(split(text, <<".", " ">>), max_tokens, <<>>, <<>>),
                      max_tokens)

(***************************************************************************)
(* Content similarity (rag/ingest_user_docs.py).  Here a text is the       *)
(* sequence of its pieces, a piece being a run of letters or a run of      *)
(* whitespace; a word is the sequence of the pieces between two runs of    *)
(* whitespace.                                                             *)
(***************************************************************************)
WhitespaceRuns == {" ", "  "}

\* a word of more than 50 characters
LongWord == "https://www.cdc.gov/ncbddd/actearly/milestones/index.html"

\* len() of a piece
piece_len(p) ==
    CASE p \in {" ", "1", "2"} -> 1 [] p = "  " -> 2
      [] p = "iep" -> 3 [] p = "chunk" -> 5
      [] p \in {"autism", "Autism", "report"} -> 6
      [] p = "support" -> 7
      [] p = LongWord -> 57
      [] OTHER -> 14

RECURSIVE str_len(_)
str_len(text) == IF text = <<>> THEN 0 ELSE piece_len(Head(text)) + str_len(Tail(text))

\* text.lower().split(): the words, each the sequence of its lower-cased pieces
RECURSIVE split_words(_, _, _)
split_words(text, words, word) ==
    IF text = <<>> THEN (IF word # <<>> THEN Append(words, word) ELSE words)
    ELSE IF Head(text) \in WhitespaceRuns
    THEN split_words(Tail(text), IF word # <<>> THEN Append(words, word) ELSE words, <<>>)
    ELSE split_words(Tail(text), words, Append(word, lower_token(Head(text))))

\* ' '.join(words)
RECURSIVE join_words(_)
join_words(words) ==
    IF words = <<>> THEN <<>>
    ELSE IF Len(words) = 1 THEN words[1]
    ELSE words[1] \o <<" ">> \o join_words(Tail(words))

normalize(text) == join_words(split_words(text, <<>>, <<>>))

\* set(norm.split())
word_set(norm) == LET words == split_words(norm, <<>>, <<>>) IN {words[i] : i \in DOMAIN words}

\* mutant: a similarity equal to the threshold counts as similar
jaccard_exceeds_or_equals(words1, words2, threshold) ==
    100 * Cardinality(words1 \cap words2) >= threshold * Cardinality(words1 \cup words2)

\* jaccard_similarity > threshold, the threshold being a percentage
jaccard_exceeds(words1, words2, threshold) ==
    100 * Cardinality(words1 \cap words2) > threshold * Cardinality(words1 \cup words2)

\* the comparison of the two normalised texts and their sets of words
similar_normalized(norm1, norm2, words1, words2, threshold) ==
    IF norm1 = norm2 THEN TRUE
    ELSE IF words1 = {} \/ words2 = {} THEN FALSE
    ELSE IF /\ str_len(norm1) > 50
            /\ str_len(norm2) > 50
            /\ (contains(norm2, norm1) \/ contains(norm1, norm2))
    THEN TRUE
    ELSE jaccard_exceeds(words1, words2, threshold)

check_content_similarity(chunk1, chunk2, threshold) ==
    LET norm1 == normalize(chunk1)
        norm2 == normalize(chunk2)
    IN similar_normalized(norm1, norm2, word_set(norm1), word_set(norm2), threshold)

\* check_duplicate_content: the loop over the existing chunks
check_duplicate_content(new_chunk, existing_chunks, threshold) ==
    \E existing \in existing_chunks : check_content_similarity(new_chunk, existing, threshold)

(***************************************************************************)
(* Private document store (rag/ingest_user_docs.py, app.py)                *)
(***************************************************************************)
Files == {"report.pdf", "iep.docx"}

\* chunk_text(extract_text_from_file(file)): the chunks of each file
FileChunks(filename) ==
    IF filename = "report.pdf"
    THEN << <<"report", " ", "chunk", " ", "1">>, <<"report", " ", "chunk", " ", "2">> >>
    ELSE << <<"iep", " ", "chunk", " ", "1">> >>

\* similarity of a chunk to the queries of the behaviour
ChunkScore(chunk) ==
    CASE chunk = <<"report", " ", "chunk", " ", "1">> -> 90 [] chunk = <<"report", " ", "chunk", " ", "2">> -> 85
      [] OTHER -> 80

RECURSIVE SetToSeq(_)
SetToSeq(S) ==
    IF S = {} THEN <<>>
    ELSE LET x == CHOOSE y \in S : TRUE IN <<x>> \o SetToSeq(S \ {x})

\* the document entries collected from the new files of the directory
RECURSIVE collect_documents(_, _, _, _, _)
collect_documents(files, i, existing_docs, existing_chunks, documents) ==
    IF files = <<>> THEN documents
    ELSE IF Head(files) \in existing_docs
    THEN collect_documents(Tail(files), 1, existing_docs, existing_chunks, documents)
    ELSE IF i > Len(FileChunks(Head(files)))
    THEN collect_documents(Tail(files), 1, existing_docs, existing_chunks, documents)
    ELSE LET chunk == FileChunks(Head(files))[i]
         IN IF check_duplicate_content(chunk, existing_chunks, 80)
            THEN collect_documents(files, i + 1, existing_docs, existing_chunks, documents)
            ELSE collect_documents(files, i + 1, existing_docs, existing_chunks \cup {chunk},
                                   Append(documents, [filename |-> Head(files),
                                                      content |-> chunk]))

\* the points of the user's collection that the scroll returns: lines 121-141
scroll_existing(st, user_id) == {p \in st : p.collection = user_docs_collection(user_id)}

\* ingest_user_documents from the scroll on (lines 143-262): existing is what
\* the scroll returned, st the store that the upsert writes to
ingest_scrolled(existing, st, n, user_id, docs_dir, e) ==
    LET collection_name == user_docs_collection(user_id)
        documents == collect_documents(SetToSeq(docs_dir), 1,
                                       {p.filename : p \in existing},
                                       {p.content : p \in existing}, <<>>)
    IN IF ~e.qdr_ok \/ documents = <<>> \/ ~e.embed_ok
       THEN [st |-> st, n |-> n, count |-> 0]
       ELSE [st |-> st \cup {Point(collection_name, <<"d", n + i - 1>>,
                                   ChunkScore(documents[i].content), "user_upload",
                                   "user_document", documents[i].filename, user_id,
                                   documents[i].content) : i \in 1..Len(documents)},
             n |-> n + Len(documents),
             count |-> Len(documents)]

\* mutant: the collection is not read before the files are processed
ingest_user_documents_unchecked(st, n, user_id, docs_dir, e) ==
    LET collection_name == user_docs_collection(user_id)
        documents == collect_documents(SetToSeq(docs_dir), 1, {}, {}, <<>>)
    IN IF ~e.qdr_ok \/ documents = <<>> \/ ~e.embed_ok
       THEN [st |-> st, n |-> n, count |-> 0]
       ELSE [st |-> st \cup {Point(collection_name, <<"d", n + i - 1>>,
                                   ChunkScore(documents[i].content), "user_upload",
                                   "user_document", documents[i].filename, user_id,
                                   documents[i].content) : i \in 1..Len(documents)},
             n |-> n + Len(documents),
             count |-> Len(documents)]

\* ingest_user_documents(user_id, docs_dir): the store, the id counter and the
\* number of points written; the scroll and the upsert see the same store
ingest_user_documents(st, n, user_id, docs_dir, e) ==
    ingest_scrolled(scroll_existing(st, user_id), st, n, user_id, docs_dir, e)

\* delete_user_document: the name models is not defined in the module, the
\* scroll raises, the store is left as it is and False is returned
delete_user_document(st, user_id, filename) == [st |-> st, ok |-> FALSE]

\* app.py delete_document_from_vector_store: delete by filename filter
delete_document_from_vector_store(st, filename, user_id, e) ==
    IF ~e.qdr_ok THEN st
    ELSE {p \in st : ~(p.collection = user_docs_collection(user_id) /\ p.filename = filename)}

\* app.py clear_user_documents: delete by user_id filter
clear_user_documents(st, user_id, e) ==
    IF ~e.qdr_ok THEN st
    ELSE {p \in st : ~(p.collection = user_docs_collection(user_id) /\ p.user_id = user_id)}

\* ids that are 8 characters long and alphanumeric
Len8Alnum == {"alice123"}

\* st.session_state.user_profile.get("user_id", "default")
session_user_id(profile) == IF profile.user_id = "" THEN "default" ELSE profile.user_id

\* ensure_consistent_user_id: the profile afterwards and the id returned
ensure_consistent_user_id(profile) ==
    IF profile.user_id = "" THEN [profile |-> profile, user_id |-> "default"]
    ELSE IF profile.user_id \in Len8Alnum
    THEN [profile |-> [profile EXCEPT !.user_id = "default"], user_id |-> "default"]
    ELSE [profile |-> profile, user_id |-> profile.user_id]

(***************************************************************************)
(* State shared by the specifications                                      *)
(***************************************************************************)
Sessions == {"s1", "s2"}
ManagerIds == {"cached"}

\* @st.cache_resource: every session receives the one cached instance
get_conversation_manager(session) == "cached"

Env(embed_ok, qdr_ok, mongo_ok, client, llm_ok, web_ok) ==
    [embed_ok |-> embed_ok, qdr_ok |-> qdr_ok, mongo_ok |-> mongo_ok, client |-> client,
     llm_ok |-> llm_ok, web_ok |-> web_ok]

AllUp == Env(TRUE, TRUE, TRUE, TRUE, TRUE, TRUE)

\* everything up, no OpenAI client, embeddings down, vector store down
TurnEnvs ==
    {AllUp, Env(TRUE, TRUE, TRUE, FALSE, FALSE, FALSE),
     Env(FALSE, TRUE, TRUE, TRUE, TRUE, TRUE), Env(TRUE, FALSE, TRUE, TRUE, TRUE, TRUE)}

\* the shared knowledge base written by ingest_shared_kb
KbPoints ==
    { Point(SharedCollection, <<"k", 1>>, 88, "https://www.cdc.gov/autism/screening",
            "knowledge_base", "", "public", <<"chunk k1">>),
      Point(SharedCollection, <<"k", 2>>, 72, "https://www.cdc.gov/autism/screening",
            "knowledge_base", "", "public", <<"chunk k2">>),
      Point(SharedCollection, <<"k", 3>>, 64, "internal note",
            "knowledge_base", "", "public", <<"chunk k3">>) }

\* documents uploaded earlier under the ids "default" and "u1"
SeedUserDocs ==
    { Point(user_docs_collection("default"), <<"d", 101>>, 90, "user_upload",
            "user_document", "report.pdf", "default", <<"report", " ", "chunk", " ", "1">>),
      Point(user_docs_collection("u1"), <<"d", 102>>, 80, "user_upload",
            "user_document", "iep.docx", "u1", <<"iep", " ", "chunk", " ", "1">>) }

NoRoute ==
    [router |-> RetrievalRouter_init({}), called |-> FALSE, user_query |-> <<>>,
     user_profile |-> Profile("", "", "", ""), context_path |-> <<>>, raised |-> {},
     out |-> [mode |-> "", results |-> <<>>]]

NoTurn ==
    [session |-> "", op |-> "none", user_input |-> <<>>, selected_path |-> <<>>,
     user_profile |-> Profile("", "", "", ""), raised |-> "", calls |-> 0, ops |-> <<>>,
     ret |-> TurnResult(<<>>, <<>>, <<>>, {}, 0, <<>>, "", FALSE)]

NoCall ==
    [op |-> "none", session |-> "", user_id |-> "", filename |-> "", docs_dir |-> {},
     results |-> <<>>, count |-> 0, ok |-> FALSE]

\* the processes that may call ingest_user_documents at the same time, and a
\* call that has not started
RunIds == {"run1", "run2"}
NoRun == [pc |-> "idle", user_id |-> "", docs_dir |-> {}, existing |-> {}, count |-> 0]
NoRuns == [r \in RunIds |-> NoRun]

NoFn == [op |-> "none", args |-> <<>>, done |-> TRUE, out |-> <<>>]

NoSessions == [s \in Sessions |-> [user_id |-> ""]]

NoManagers == [i \in ManagerIds |-> IntelligentConversationManager_init]

(***************************************************************************)
(* Specification SpecSynth: synthesize_response applied to every input of  *)
(* the bounded domain.                                                     *)
(***************************************************************************)
SynthHits ==
    { Hit(<<"p", 1>>, 90, "user_upload", "user_document", "report.pdf", "u1", <<"chunk p1">>),
      Hit(<<"p", 2>>, 85, "user_upload", "user_document", "report.pdf", "u1", <<"chunk p2">>),
      Hit(<<"p", 3>>, 80, "user_upload", "user_document", "iep.docx", "u1", <<"chunk p3">>),
      Hit(<<"p", 4>>, 75, "user_upload", "user_document", "notes.txt", "u1", <<"chunk p4">>),
      Hit(<<"p", 5>>, 70, "user_upload", "user_document", "eval.pdf", "u1", <<"chunk p5">>),
      Hit(<<"k", 1>>, 88, "https://www.cdc.gov/autism/screening", "knowledge_base", "", "public", <<"chunk k1">>) }

InjSeqs(S, n) ==
    {s \in UNION {[1..k -> S] : k \in 0..n} :
        \A i, j \in DOMAIN s : i # j => s[i] # s[j]}

SynthEnvs == [mongo_ok : BOOLEAN, client : BOOLEAN, llm_ok : BOOLEAN, web_ok : BOOLEAN]

NoResult ==
    [response |-> <<>>, sources |-> <<>>, confidence |-> 0, next_suggestions |-> <<>>]

SynthInit ==
    \E c \in ContextPaths, d \in DiagnosisStatuses,
       vr \in InjSeqs(SynthHits, MaxVr), e \in SynthEnvs :
        /\ syn = [context_path |-> c, user_profile |-> [diagnosis_status |-> d],
                  vector_results |-> vr, env |-> e, done |-> FALSE, out |-> NoResult]
        /\ rt = NoRoute
        /\ qdrant = {}
        /\ next_id = 1
        /\ services = AllUp
        /\ managers = NoManagers
        /\ turn = NoTurn
        /\ sessions = NoSessions
        /\ call = NoCall
        /\ runs = NoRuns
        /\ fn = NoFn

SynthCall ==
    /\ ~syn.done
    /\ syn' = [syn EXCEPT !.done = TRUE,
                          !.out = synthesize_response(syn.context_path, syn.user_profile,
                                                      syn.vector_results, syn.env)]
    /\ UNCHANGED <<rt, qdrant, next_id, services, managers, turn, sessions, call, fn, runs>>

SynthNext == SynthCall

SpecSynth == SynthInit /\ [][SynthNext]_vars

(***************************************************************************)
(* Properties of synthesize_response (SpecSynth)                           *)
(***************************************************************************)
NodeInStore(context_path) == \E d \in MongoDocs : d.context_path = context_path
NodeOf(context_path) == CHOOSE d \in MongoDocs : d.context_path = context_path

PrivateHitIn(vr) == \E i \in 1..Len(vr) : vr[i].source = "user_upload"
PrivateFilenames(vr) == {vr[i].filename : i \in {k \in 1..Len(vr) : vr[k].source = "user_upload"}}

CannedFallbacks == {FallbackNo, FallbackYes, FallbackUnknown}

SourceRank(e, context_path) ==
    IF e.type = "user_document" THEN 1
    ELSE IF e.type = "web_content" THEN 3
    ELSE IF e.source = <<"General knowledge base">> THEN 4
    ELSE 2

Min(a, b) == IF a < b THEN a ELSE b

\* C7: when the context path has no node in the structured store and there are
\* no candidate results, synthesize_response returns one of the three canned
\* fallback texts, selected by diagnosis_status alone, with confidence 0.5 and
\* no sources; the response is never empty and never the error apology.
C7_FallbackCompleteness ==
    (syn.done /\ ~NodeInStore(syn.context_path) /\ syn.vector_results = <<>>)
    => /\ syn.out.response # <<>>
       /\ syn.out.response # ApologyText
       /\ syn.out.response =
            (CASE syn.user_profile.diagnosis_status = "diagnosed_no" -> FallbackNo
               [] syn.user_profile.diagnosis_status = "diagnosed_yes" -> FallbackYes
               [] OTHER -> FallbackUnknown)
       /\ syn.out.confidence = 50
       /\ syn.out.sources = <<>>

C7_Witness ==
    /\ syn.done
    /\ syn.context_path = <<"nonexistent", "path">>
    /\ syn.vector_results = <<>>
    /\ syn.user_profile.diagnosis_status = "diagnosed_yes"
    /\ syn.out.response = FallbackYes
    /\ syn.out.confidence = 50

\* C8: the confidence is 0.95 when a private document hit is among the
\* candidates, otherwise 0.9 when web content was fetched, otherwise 0.7 for a
\* composed (non-fallback) answer, and 0.5 exactly for the generic fallback.
C8_ConfidenceCascade ==
    syn.done =>
      LET webFetched == \E i \in 1..Len(syn.out.sources) :
                            syn.out.sources[i].type = "web_content"
          isFallback == syn.out.response \in CannedFallbacks
      IN /\ PrivateHitIn(syn.vector_results) => syn.out.confidence = 95
         /\ (~PrivateHitIn(syn.vector_results) /\ webFetched) => syn.out.confidence = 90
         /\ (~PrivateHitIn(syn.vector_results) /\ ~webFetched /\ ~isFallback)
                => syn.out.confidence = 70
         /\ (syn.out.confidence = 50) <=> isFallback

C8_Witness ==
    /\ syn.done
    /\ PrivateHitIn(syn.vector_results)
    /\ \E i \in 1..Len(syn.out.sources) : syn.out.sources[i].type = "web_content"
    /\ syn.out.confidence = 95

\* C9: in every non-fallback result the sources are ordered: user-document
\* filenames (each distinct filename once, at most 3), then the context path,
\* then the web URLs, then the generic knowledge-base marker, which is present
\* exactly when there were vector hits and none was a user document; so with a
\* private hit sources[0] is one of the uploaded filenames.
C9_SourcesOrdered ==
    (syn.done /\ syn.out.response \notin CannedFallbacks) =>
      LET S == syn.out.sources
          vr == syn.vector_results
          idx(r) == {i \in 1..Len(S) : SourceRank(S[i], syn.context_path) = r}
      IN /\ \A i, j \in 1..Len(S) :
                i < j => SourceRank(S[i], syn.context_path) <= SourceRank(S[j], syn.context_path)
         /\ \A i, j \in idx(1) : i # j => S[i].filename # S[j].filename
         /\ \A i \in idx(1) : S[i].filename \in PrivateFilenames(vr)
         /\ Cardinality(idx(1)) = Min(3, Cardinality(PrivateFilenames(vr)))
         /\ \A i \in idx(2) : S[i].source = syn.context_path
         /\ Cardinality(idx(2)) = (IF syn.context_path = <<>> THEN 0 ELSE 1)
         /\ \A i \in idx(3) : startswith_http(S[i].source[1])
         /\ Cardinality(idx(4)) = (IF vr # <<>> /\ ~PrivateHitIn(vr) THEN 1 ELSE 0)
         /\ PrivateHitIn(vr) =>
                /\ S[1].type = "user_document"
                /\ S[1].filename \in PrivateFilenames(vr)

C9_Witness ==
    /\ syn.done
    /\ Cardinality(PrivateFilenames(syn.vector_results)) = 4
    /\ Len(syn.out.sources) = 5
    /\ syn.out.sources[1].type = "user_document"
    /\ syn.out.sources[4].source = syn.context_path
    /\ syn.out.sources[5].type = "web_content"

\* C10: when text generation fails (the call raises or there is no client)
\* for a context path whose node exists, the response is that node's
\* response text, never the error apology.
C10_GenerationFailureFallsBackToNodeText ==
    (/\ syn.done
     /\ NodeInStore(syn.context_path)
     /\ syn.env.mongo_ok
     /\ ~(syn.env.client /\ syn.env.llm_ok))
    => /\ syn.out.response = NodeOf(syn.context_path).response
       /\ syn.out.response # ApologyText


(***************************************************************************)
(* Specification SpecRouter: a router built from the configured critical   *)
(* terms, and route() applied to the inputs of the bounded domain.         *)
(***************************************************************************)
NoSynth ==
    [context_path |-> <<>>, user_profile |-> [diagnosis_status |-> "unknown"],
     vector_results |-> <<>>,
     env |-> [mongo_ok |-> TRUE, client |-> TRUE, llm_ok |-> TRUE, web_ok |-> TRUE],
     done |-> TRUE, out |-> NoResult]

RouterQueries ==
    { <<"Suicide", "prevention">>,
      <<"he", "mentioned", "wanting", "to", "End", "his", "life">>,
      <<"help", "with", "communication">>,
      <<"what", "tool", "should", "i", "use">> }

RouterProfiles ==
    { Profile("test_user", "parent_caregiver", "", ""),
      Profile("default", "parent_caregiver", "diagnosed_yes", "3-5"),
      Profile("u1", "parent_caregiver", "diagnosed_no", "6-12"),
      Profile("", "adult_self", "", "") }

RouterContexts ==
    ContextPaths \cup {<<"diagnosed_yes", "early_intervention">>,
                       <<"adult_self", "diagnosed_no", "education">>}

RouterInit ==
    /\ rt = [NoRoute EXCEPT !.router = RetrievalRouter_init(KbCriticalTerms)]
    /\ qdrant = KbPoints \cup SeedUserDocs
    /\ services \in TurnEnvs
    /\ syn = NoSynth
    /\ next_id = 1
    /\ managers = NoManagers
    /\ turn = NoTurn
    /\ sessions = NoSessions
    /\ call = NoCall
    /\ runs = NoRuns
    /\ fn = NoFn

\* the searches of the private documents that can be made to raise
RaisingSearches == {"search_user_documents", "search_with_user_filter"}

RouteCall ==
    /\ \E q \in RouterQueries, p \in RouterProfiles, c \in RouterContexts :
          \E raised \in SUBSET RaisingSearches :
              rt' = [rt EXCEPT !.called = TRUE, !.user_query = q, !.user_profile = p,
                               !.context_path = c, !.raised = raised,
                               !.out = route(rt.router, q, p, c, qdrant, services, raised)]
    /\ UNCHANGED <<syn, qdrant, next_id, services, managers, turn, sessions, call, fn, runs>>

RouterNext == RouteCall

SpecRouter == RouterInit /\ [][RouterNext]_vars

\* the text contains, case-insensitively, a configured critical term
ContainsCriticalTerm(text) ==
    \E term \in KbCriticalTerms : contains(lower(text), lower(term))

\* C1: route returns mode mongo_only exactly for the queries that contain a
\* configured critical term, whatever the context path and the profile, and
\* the candidate list is then empty.
C1_SafetyPrecedence ==
    rt.called =>
        /\ ContainsCriticalTerm(rt.user_query) <=> rt.out.mode = "mongo_only"
        /\ rt.out.mode = "mongo_only" => rt.out.results = <<>>

(***************************************************************************)
(* Specification Spec: two browser sessions calling start_conversation and *)
(* process_user_response on the manager that get_conversation_manager      *)
(* hands them.                                                             *)
(***************************************************************************)
StartProfiles ==
    { Profile("", "parent_caregiver", "diagnosed_no", "3-5"),
      Profile("", "parent_caregiver", "diagnosed_no", "6-12"),
      Profile("", "parent_caregiver", "diagnosed_yes", "6-12"),
      Profile("u1", "adult_self", "", "") }

Utterances ==
    { <<"what", "tool", "should", "i", "use">>,
      <<"he", "mentioned", "wanting", "to", "End", "his", "life">>,
      <<"my", "son", "tucker", "has", "autism">>,
      <<"tell", "me", "about", "Treatment">>,
      <<"she", "is", "4", "years", "old", "and", "not", "diagnosed">>,
      <<"worried", "about", "speech", "therapy">> }

SelectablePaths ==
    { <<"diagnosed_no", "screening_options">>, <<"treatment">>, <<"general", "content">> }

\* the calls of steps (4) and (5) that an unexpected exception may leave, and
\* the utterances of the turns during which it does
RaisedCalls == {"route", "synthesize_response"}
RaisingUtterances ==
    { <<"tell", "me", "about", "Treatment">>,
      <<"she", "is", "4", "years", "old", "and", "not", "diagnosed">> }

Init ==
    /\ managers = NoManagers
    /\ turn = NoTurn
    /\ qdrant = KbPoints \cup SeedUserDocs
    /\ next_id = 1
    /\ services \in TurnEnvs
    /\ syn = NoSynth
    /\ rt = NoRoute
    /\ sessions = NoSessions
    /\ call = NoCall
    /\ runs = NoRuns
    /\ fn = NoFn

StartConversation(s, user_profile) ==
    /\ turn.calls < MaxCalls
    /\ \E id \in {get_conversation_manager(s)} :
         \E r \in {start_conversation(managers[id], user_profile, services)} :
          /\ managers' = [managers EXCEPT ![id] = r.m]
          /\ turn' = [session |-> s, op |-> "start_conversation", user_input |-> <<>>,
                      selected_path |-> <<>>, user_profile |-> user_profile, raised |-> "",
                      calls |-> turn.calls + 1, ops |-> r.ops, ret |-> r.ret]
    /\ UNCHANGED <<syn, rt, qdrant, next_id, services, sessions, call, fn, runs>>

\* a call of process_user_response; raised is the call of the turn that an
\* unexpected exception leaves, "" when every call returns
ProcessUserResponse(s, user_input, selected_path, raised) ==
    /\ turn.calls < MaxCalls
    /\ LET id == get_conversation_manager(s)
       IN \E determined \in _determine_next_context(managers[id], user_input) :
            \E r \in {process_user_response(managers[id], qdrant, next_id, user_input,
                                             selected_path, determined, services, raised)} :
               /\ managers' = [managers EXCEPT ![id] = r.m]
               /\ qdrant' = r.st
               /\ next_id' = r.n
               /\ turn' = [session |-> s, op |-> "process_user_response",
                           user_input |-> user_input, selected_path |-> selected_path,
                           user_profile |-> Profile("", "", "", ""), raised |-> raised,
                           calls |-> turn.calls + 1, ops |-> r.ops, ret |-> r.ret]
    /\ UNCHANGED <<syn, rt, services, sessions, call, fn, runs>>

\* the path buttons of the guided page: f"Navigate to {path}" with selected_path
SelectPath(s, path) == ProcessUserResponse(s, <<"Navigate", "to">> \o path, path, "")

\* a turn during which the router fetch or the synthesis raises
RaisingTurn(s, user_input, raised) == ProcessUserResponse(s, user_input, <<>>, raised)

Next ==
    \E s \in Sessions :
        \/ \E p \in StartProfiles : StartConversation(s, p)
        \/ \E u \in Utterances : ProcessUserResponse(s, u, <<>>, "")
        \/ \E path \in SelectablePaths : SelectPath(s, path)
        \/ \E u \in RaisingUtterances, r \in RaisedCalls : RaisingTurn(s, u, r)

Spec == Init /\ [][Next]_vars

EmbeddingOrStoreOps == {"embed", "ensure_collection", "upsert", "search"}
RetrievalOrSynthesisOps == {"search", "route", "synthesize", "generate"}

\* C2: in a turn the safety check comes before every embedding call and every
\* vector-store operation of the turn, and a turn whose utterance contains a
\* critical term performs no vector search, router fetch, synthesis or text
\* generation.
C2_SafetyCheckPrecedesRetrieval ==
    turn.op = "process_user_response" =>
        /\ \A i \in 1..Len(turn.ops) :
              turn.ops[i] \in EmbeddingOrStoreOps =>
                  \E j \in 1..(i - 1) : turn.ops[j] = "safety_check"
        /\ ContainsCriticalTerm(turn.user_input) =>
              \A i \in 1..Len(turn.ops) : turn.ops[i] \notin RetrievalOrSynthesisOps

\* C3: the turn returned for an utterance that contains a critical term has
\* mode mongo_only, confidence 1.0, no sources, no suggestions, and a text that
\* names a matched term and contains "healthcare provider".
C3_InterceptedTurn ==
    (turn.op = "process_user_response" /\ ContainsCriticalTerm(turn.user_input)) =>
        /\ turn.ret.mode = "mongo_only"
        /\ turn.ret.confidence = 100
        /\ turn.ret.sources = <<>>
        /\ turn.ret.next_suggestions = <<>>
        /\ \E term \in KbCriticalTerms :
              /\ contains(lower(turn.user_input), lower(term))
              /\ contains(lower(turn.ret.response), lower(term))
        /\ contains(lower(turn.ret.response), <<"healthcare", "provider">>)

\* what a session's manager holds for the session
SessionState(s) ==
    LET m == managers[get_conversation_manager(s)]
    IN <<m.user_profile, m.conversation_history, m.current_context_path>>

\* C5: a call made by one session leaves the user profile, the conversation
\* history and the current context path of every other session as they were.
C5_SessionsIndependent ==
    [][\A s \in Sessions : turn'.session # s => SessionState(s)' = SessionState(s)]_vars

\* C11: a turn during which the router fetch or the synthesis raises is
\* returned with mode error and the apologetic message.
C11_ExceptionsBecomeErrorTurns ==
    (turn.op = "process_user_response" /\ turn.raised \in RaisedCalls) =>
        /\ turn.ret.mode = "error"
        /\ turn.ret.response = ErrorText

\* the manager a session's calls act on
ManagerOf(s) == managers[get_conversation_manager(s)]

IsPrefix(a, b) == Len(a) <= Len(b) /\ SubSeq(b, 1, Len(a)) = a

\* C12: a turn that ends with mode error leaves the manager's current context
\* path, available paths and user profile as they were, and every earlier
\* history entry in its place.
C12_ErrorTurnPreservesState ==
    [][turn'.ret.mode = "error" =>
          /\ ManagerOf(turn'.session)'.current_context_path
                 = ManagerOf(turn'.session).current_context_path
          /\ ManagerOf(turn'.session)'.available_paths
                 = ManagerOf(turn'.session).available_paths
          /\ ManagerOf(turn'.session)'.user_profile
                 = ManagerOf(turn'.session).user_profile
          /\ IsPrefix(ManagerOf(turn'.session).conversation_history,
                      ManagerOf(turn'.session)'.conversation_history)]_vars

\* C13: a call of process_user_response keeps every earlier history entry at
\* its index with its content and adds entries only at the end.
C13_HistoryAppendOnly ==
    [][turn'.op = "process_user_response" =>
          /\ IsPrefix(ManagerOf(turn'.session).conversation_history,
                      ManagerOf(turn'.session)'.conversation_history)
          /\ Len(ManagerOf(turn'.session)'.conversation_history)
                 > Len(ManagerOf(turn'.session).conversation_history)]_vars

\* a completed turn that added its two entries to a history that already held
\* a conversation
C13_Witness ==
    /\ turn.op = "process_user_response"
    /\ turn.ret.mode \in {"blend", "vector_only"}
    /\ Len(ManagerOf(turn.session).conversation_history) >= 4

\* C14: two calls of start_conversation given the same role and
\* diagnosis_status return the same initial context path.
C14_InitialContextDeterministic ==
    [][(/\ turn.op = "start_conversation"
        /\ turn'.op = "start_conversation"
        /\ turn'.user_profile.role = turn.user_profile.role
        /\ turn'.user_profile.diagnosis_status = turn.user_profile.diagnosis_status)
       => turn'.ret.context_path = turn.ret.context_path]_vars

(***************************************************************************)
(* Specification SpecStore: sessions signing in, uploading, removing and   *)
(* searching documents of the private collections.                        *)
(***************************************************************************)
UserIdValues == {"", "default", "u1"}
\* ids a signed-in profile carries: an account id, an 8-character generated id
AccountIds == {"u1", "alice123"}
DocsDirs == {{"report.pdf"}, {"iep.docx"}, {"report.pdf", "iep.docx"}}
SearchLimits == {1, 3}

\* everything up, embeddings down, vector store down
StoreEnvs ==
    {AllUp, Env(FALSE, TRUE, TRUE, TRUE, TRUE, TRUE), Env(TRUE, FALSE, TRUE, TRUE, TRUE, TRUE)}

StoreInit ==
    /\ qdrant = KbPoints
    /\ next_id = 1
    /\ services \in StoreEnvs
    /\ sessions = NoSessions
    /\ call = NoCall
    /\ runs = NoRuns
    /\ fn = NoFn
    /\ syn = NoSynth
    /\ rt = NoRoute
    /\ managers = NoManagers
    /\ turn = NoTurn

\* the record of a call; ok is the boolean delete_user_document returns and
\* FALSE for the other calls
StoreCall(op, session, user_id, filename, docs_dir, results, count) ==
    [op |-> op, session |-> session, user_id |-> user_id, filename |-> filename,
     docs_dir |-> docs_dir, results |-> results, count |-> count, ok |-> FALSE]

\* google_auth: the account id becomes the user_id of the session's profile
Login(s, uid) ==
    /\ \A t \in Sessions \ {s} : sessions[t].user_id # uid
    /\ sessions' = [sessions EXCEPT ![s] = [user_id |-> uid]]
    /\ call' = StoreCall("login", s, uid, "", {}, <<>>, 0)
    /\ UNCHANGED <<syn, rt, qdrant, next_id, services, managers, turn, fn, runs>>

EnsureConsistentUserId(s) ==
    /\ \E r \in {ensure_consistent_user_id(sessions[s])} :
          /\ sessions' = [sessions EXCEPT ![s] = r.profile]
          /\ call' = StoreCall("ensure_consistent_user_id", s, r.user_id, "", {}, <<>>, 0)
    /\ UNCHANGED <<syn, rt, qdrant, next_id, services, managers, turn, fn, runs>>

IngestUserDocuments(user_id, docs_dir) ==
    /\ \E r \in {ingest_user_documents(qdrant, next_id, user_id, docs_dir, services)} :
          /\ r.n - 1 <= MaxIds
          /\ qdrant' = r.st
          /\ next_id' = r.n
          /\ call' = StoreCall("ingest_user_documents", "", user_id, "", docs_dir, <<>>, r.count)
    /\ UNCHANGED <<syn, rt, services, managers, turn, sessions, fn, runs>>

\* app.py process_patient_document: save the file, ingest the directory
ProcessPatientDocument(s, filename) ==
    /\ \E user_id \in {session_user_id(sessions[s])} :
         \E r \in {ingest_user_documents(qdrant, next_id, user_id, {filename}, services)} :
          /\ r.n - 1 <= MaxIds
          /\ qdrant' = r.st
          /\ next_id' = r.n
          /\ call' = StoreCall("process_patient_document", s, user_id, filename, {filename},
                              <<>>, r.count)
    /\ UNCHANGED <<syn, rt, services, managers, turn, sessions, fn, runs>>

SearchUserDocuments(user_id, limit) ==
    /\ call' = StoreCall("search_user_documents", "", user_id, "", {},
                         search_user_documents(qdrant, user_id, limit, services), 0)
    /\ UNCHANGED <<syn, rt, qdrant, next_id, services, managers, turn, sessions, fn, runs>>

DeleteUserDocument(user_id, filename) ==
    /\ qdrant' = delete_user_document(qdrant, user_id, filename).st
    /\ call' = [StoreCall("delete_user_document", "", user_id, filename, {}, <<>>, 0)
                   EXCEPT !.ok = delete_user_document(qdrant, user_id, filename).ok]
    /\ UNCHANGED <<syn, rt, next_id, services, managers, turn, sessions, fn, runs>>

\* app.py delete_document
DeleteDocument(s, filename) ==
    /\ qdrant' = delete_document_from_vector_store(qdrant, filename,
                                                   session_user_id(sessions[s]), services)
    /\ call' = StoreCall("delete_document", s, session_user_id(sessions[s]), filename, {},
                         <<>>, 0)
    /\ UNCHANGED <<syn, rt, next_id, services, managers, turn, sessions, fn, runs>>

ClearUserDocuments(s) ==
    /\ qdrant' = clear_user_documents(qdrant, session_user_id(sessions[s]), services)
    /\ call' = StoreCall("clear_user_documents", s, session_user_id(sessions[s]), "", {},
                         <<>>, 0)
    /\ UNCHANGED <<syn, rt, next_id, services, managers, turn, sessions, fn, runs>>

StoreNext ==
    \/ \E s \in Sessions, uid \in AccountIds : Login(s, uid)
    \/ \E s \in Sessions : EnsureConsistentUserId(s)
    \/ \E uid \in UserIdValues, d \in DocsDirs : IngestUserDocuments(uid, d)
    \/ \E s \in Sessions, f \in Files : ProcessPatientDocument(s, f)
    \/ \E uid \in UserIdValues, k \in SearchLimits : SearchUserDocuments(uid, k)
    \/ \E uid \in UserIdValues, f \in Files : DeleteUserDocument(uid, f)
    \/ \E s \in Sessions, f \in Files : DeleteDocument(s, f)
    \/ \E s \in Sessions : ClearUserDocuments(s)

SpecStore == StoreInit /\ [][StoreNext]_vars

\* C4: a search of the private collection made for user_id A returns only
\* chunks whose user_id is A or "public", whatever A is and whatever was
\* uploaded, removed or searched before.
C4_TenantIsolation ==
    call.op = "search_user_documents" =>
        \A i \in 1..Len(call.results) : call.results[i].user_id \in {call.user_id, "public"}

\* a search that returned chunks while the store holds chunks of another user
C4_Witness ==
    /\ call.op = "search_user_documents"
    /\ call.results # <<>>
    /\ \E p \in qdrant : /\ p.collection[1] = "user_docs"
                         /\ p.user_id \notin {call.user_id, "public"}

IngestOps == {"ingest_user_documents", "process_patient_document"}

\* the chunks held by the private collection of a user
user_chunks(st, user_id) == {p \in st : p.collection = user_docs_collection(user_id)}

C6_PrivateCollectionsDistinct ==
    \A s, t \in Sessions :
        s # t => user_docs_collection(session_user_id(sessions[s]))
                     # user_docs_collection(session_user_id(sessions[t]))

(***************************************************************************)
(* The text and search functions called on their own: chunk_text,          *)
(* check_content_similarity, check_duplicate_content (rag/ingest_user_docs) *)
(* and search_with_diversity (rag/qdrant_client).  fn holds the function,  *)
(* its arguments and, once it has returned, its result.                    *)
(***************************************************************************)
MaxTextLen == 5
MaxPieces == 3

RECURSIVE SeqsUpTo(_, _)
SeqsUpTo(S, n) ==
    IF n = 0 THEN {<<>>}
    ELSE LET shorter == SeqsUpTo(S, n - 1)
         IN shorter \cup {Append(q, x) : q \in {r \in shorter : Len(r) = n - 1}, x \in S}

FnCall(op, args) == [op |-> op, args |-> args, done |-> FALSE, out |-> <<>>]

\* texts of letters, full stops, blanks and line ends, against a budget of
\* one token (four characters)
ChunkChars == {"a", "b", ".", " ", "\n"}
ChunkInputs ==
    {FnCall("chunk_text", [text |-> t, max_tokens |-> 1]) : t \in SeqsUpTo(ChunkChars, MaxTextLen)}

SimPieces == {"Autism", "autism", "support", LongWord, " ", "  "}
SimThresholds == {50, 80}

\* texts the first text is compared with
SimReferences ==
    { <<>>, <<" ">>, <<"autism">>, <<"autism", " ", "support">>,
      <<"support", "  ", "Autism", " ">>, <<"autism", "support">>,
      <<LongWord>>, <<LongWord, " ", "autism">>,
      <<"support", " ", LongWord, " ", "autism">>,
      <<"autism", " ", LongWord, " ", "autism", " ", "support">> }

SimilarityInputs ==
    {FnCall("check_content_similarity", [chunk1 |-> a, chunk2 |-> b, threshold |-> th]) :
        a \in SeqsUpTo(SimPieces, MaxPieces), b \in SimReferences, th \in SimThresholds}

\* chunks stored earlier
ExistingPool ==
    { <<"autism", " ", "support">>, <<LongWord, " ", "autism">>, <<"support">>, <<>> }

DuplicateInputs ==
    {FnCall("check_duplicate_content",
            [new_chunk |-> a, existing_chunks |-> ex, threshold |-> th]) :
        a \in SeqsUpTo(SimPieces, MaxPieces - 1), ex \in SUBSET ExistingPool,
        th \in SimThresholds}

\* chunks of the shared collection: three sources, one of them by filename
DivPoints ==
    KbPoints \cup
    { Point(SharedCollection, <<"k", 4>>, 80, "https://www.cdc.gov/autism/screening",
            "knowledge_base", "", "public", <<"chunk k4">>),
      Point(SharedCollection, <<"k", 5>>, 60, "", "knowledge_base", "guide.pdf",
            "public", <<"chunk k5">>) }

DivKs == {1, 2, 3}

DiversityInputs ==
    {FnCall("search_with_diversity", [st |-> st, k |-> k, min_sources |-> 2]) :
        st \in SUBSET DivPoints, k \in DivKs}

\* Embedding and point creation of ingest_user_documents (lines 205-250).
\* The files of SpecStore give fewer chunks than one batch holds, so that
\* there embed fails for all the chunks of a call or for none; here the chunk
\* list is longer than a batch and each batch fails or succeeds by itself.
MaxDocuments == 12
batch_size == 10

\* the entries of documents for a file of n chunks
document_entries(n) ==
    [i \in 1..n |-> [filename |-> "long.txt", chunk_index |-> i - 1, total_chunks |-> n,
                     content |-> <<"chunk", i>>]]

\* the text embedded for a document entry
embedding_text(doc) == <<doc.filename, doc.chunk_index + 1, doc.total_chunks, doc.content>>

\* the vector embed returns for a text: the embedding of that text
embedding_of(text) == [embedding_of |-> text]

\* the loop over the batches from text i on; failed is the set of the batch
\* numbers for which embed returns nothing
RECURSIVE embed_in_batches(_, _, _)
embed_in_batches(texts, i, failed) ==
    IF i > Len(texts) THEN <<>>
    ELSE (IF ((i - 1) \div batch_size) + 1 \in failed THEN <<>>
          ELSE [j \in 1..(Min(i + batch_size - 1, Len(texts)) - i + 1) |->
                    embedding_of(texts[i + j - 1])])
         \o embed_in_batches(texts, i + batch_size, failed)

\* zip(documents, all_vectors): the payload and the vector of each point
create_points(documents, all_vectors) ==
    [i \in 1..Min(Len(documents), Len(all_vectors)) |->
        [payload |-> documents[i], vector |-> all_vectors[i]]]

\* the points upserted for the documents: none when no vector was made
ingest_points(documents, failed) ==
    create_points(documents,
                  embed_in_batches([i \in DOMAIN documents |-> embedding_text(documents[i])],
                                   1, failed))

PointsInputs ==
    {FnCall("ingest_points", [documents |-> document_entries(n), failed |-> failed]) :
        n \in 1..MaxDocuments, failed \in SUBSET (1..(((MaxDocuments - 1) \div batch_size) + 1))}

\* Knowledge base ingestion (knowledge/ingest.py).  A JSON value is a record:
\* a dictionary holds the sequence of its entries in the order of the file, a
\* string, number or list holds none.
Scalar == [kind |-> "scalar", entries |-> <<>>]
Dict(entries) == [kind |-> "dict", entries |-> entries]
Entry(key, value) == [key |-> key, value |-> value]

\* key in value
has_key(value, key) == \E i \in 1..Len(value.entries) : value.entries[i].key = key

\* value.get(key, {})
get_dict(value, key) ==
    IF has_key(value, key)
    THEN value.entries[CHOOSE i \in 1..Len(value.entries) : value.entries[i].key = key].value
    ELSE Dict(<<>>)

FlatDoc(context_path, type) == [context_path |-> context_path, type |-> type]

\* the loop of flatten_structure over data.items()
RECURSIVE flatten_entries(_, _)
flatten_entries(entries, parent_path) ==
    IF entries = <<>> THEN <<>>
    ELSE LET value == Head(entries).value
             current_path == Append(parent_path, Head(entries).key)
         IN (IF value.kind = "dict"
             THEN (IF has_key(value, "response") /\ has_key(value, "label")
                   THEN <<FlatDoc(current_path, "content")>>
                   ELSE flatten_entries(value.entries, current_path))
             ELSE <<FlatDoc(current_path, "metadata")>>)
            \o flatten_entries(Tail(entries), parent_path)

flatten_structure(data, parent_path) == flatten_entries(data.entries, parent_path)

\* the documents added for the items of one section of globals
global_items(section_key, items) ==
    [i \in DOMAIN SelectSeq(items, LAMBDA item : item.value.kind = "dict"
                                                  /\ has_key(item.value, "response")) |->
        FlatDoc(<<"globals", section_key,
                  SelectSeq(items, LAMBDA item : item.value.kind = "dict"
                                                 /\ has_key(item.value, "response"))[i].key>>,
                "global_content")]

\* the loop over globals_data.items()
RECURSIVE global_sections(_)
global_sections(sections) ==
    IF sections = <<>> THEN <<>>
    ELSE (IF Head(sections).value.kind = "dict"
          THEN global_items(Head(sections).key, Head(sections).value.entries)
          ELSE <<>>)
         \o global_sections(Tail(sections))

\* build_enhanced_flat_structure for the content of structured_mongo.json
build_enhanced_flat_structure(structured_data) ==
    flatten_structure(structured_data, <<>>)
    \o <<FlatDoc(<<"router">>, "router_config")>>
    \o global_sections(get_dict(structured_data, "globals").entries)

\* the shapes of a node of the file: a plain value, dictionaries with or
\* without label and response, a container of one content node
NodeShapes ==
    { Scalar,
      Dict(<<>>),
      Dict(<<Entry("label", Scalar), Entry("response", Scalar), Entry("tone", Scalar)>>),
      Dict(<<Entry("response", Scalar), Entry("tone", Scalar)>>),
      Dict(<<Entry("label", Scalar)>>),
      Dict(<<Entry("label", Scalar), Entry("response", Scalar),
             Entry("routes", Scalar)>>),
      Dict(<<Entry("mchat", Dict(<<Entry("label", Scalar), Entry("response", Scalar)>>))>>) }

\* files with the sections router and globals and one guided flow
StructuredData ==
    { Dict(<<Entry("router", Dict(<<Entry("role_gate", Scalar),
                                    Entry("safety_rules", Dict(<<Entry("terms", Scalar)>>))>>)),
             Entry("globals", Dict(<<Entry("info_hub",
                                           Dict(<<Entry("intro_to_autism", item),
                                                  Entry("version", Scalar)>>))>>)),
             Entry("diagnosed_no", Dict(<<Entry("screening_options", node),
                                          Entry("entry_point", other)>>))>>) :
        item \in NodeShapes, node \in NodeShapes, other \in NodeShapes }

FlattenInputs ==
    {FnCall("build_enhanced_flat_structure", [structured_data |-> d]) : d \in StructuredData}

FnInit ==
    /\ fn \in ChunkInputs \cup SimilarityInputs \cup DuplicateInputs \cup DiversityInputs
              \cup PointsInputs \cup FlattenInputs
    /\ rt = NoRoute
    /\ qdrant = {}
    /\ services = Env(TRUE, TRUE, TRUE, TRUE, TRUE, TRUE)
    /\ syn = NoSynth
    /\ next_id = 1
    /\ managers = NoManagers
    /\ turn = NoTurn
    /\ sessions = NoSessions
    /\ call = NoCall
    /\ runs = NoRuns

Returned(out) ==
    /\ ~fn.done
    /\ fn' = [fn EXCEPT !.done = TRUE, !.out = out]
    /\ UNCHANGED <<syn, rt, qdrant, next_id, services, managers, turn, sessions, call, runs>>

ChunkText ==
    /\ fn.op = "chunk_text"
    /\ Returned(chunk_text(fn.args.text, fn.args.max_tokens))

CheckContentSimilarity ==
    /\ fn.op = "check_content_similarity"
    /\ Returned(check_content_similarity(fn.args.chunk1, fn.args.chunk2, fn.args.threshold))

CheckDuplicateContent ==
    /\ fn.op = "check_duplicate_content"
    /\ Returned(check_duplicate_content(fn.args.new_chunk, fn.args.existing_chunks,
                                        fn.args.threshold))

SearchWithDiversity ==
    /\ fn.op = "search_with_diversity"
    /\ Returned(search_with_diversity(fn.args.st, SharedCollection, "public", fn.args.k,
                                      fn.args.min_sources, TRUE))

IngestPoints ==
    /\ fn.op = "ingest_points"
    /\ Returned(ingest_points(fn.args.documents, fn.args.failed))

BuildEnhancedFlatStructure ==
    /\ fn.op = "build_enhanced_flat_structure"
    /\ Returned(build_enhanced_flat_structure(fn.args.structured_data))

FnNext ==
    \/ ChunkText
    \/ CheckContentSimilarity
    \/ CheckDuplicateContent
    \/ SearchWithDiversity
    \/ IngestPoints
    \/ BuildEnhancedFlatStructure

SpecFunctions == FnInit /\ [][FnNext]_vars

\* the distinct sources of a list of hits
sources_of(hits) == {diversity_source(hits[i]) : i \in 1..Len(hits)}

\* the raw candidates of a call: the k * 3 best chunks of the collection
raw_candidates(st, k) == qdr_search(st, SharedCollection, user_filter("public"), k * 3)

\* C16: with k >= 2 and min_sources = 2, when the raw candidates hold chunks
\* of at least two sources, the result of search_with_diversity holds chunks
\* of at least two sources.
C16_DiversityLowerBound ==
    (/\ fn.op = "search_with_diversity"
     /\ fn.done
     /\ fn.args.k >= 2
     /\ fn.args.min_sources = 2
     /\ Cardinality(sources_of(raw_candidates(fn.args.st, fn.args.k))) >= 2)
    => Cardinality(sources_of(fn.out)) >= 2

RECURSIVE concat(_)
concat(chunks) == IF chunks = <<>> THEN <<>> ELSE Head(chunks) \o concat(Tail(chunks))

\* the letters of a text, in their order
letters(text) == SelectSeq(text, LAMBDA c : c \in {"a", "b"})

\* the chunks hold the letters of the text in the order of the text
ChunksInOrder == letters(concat(fn.out)) = letters(fn.args.text)

\* no chunk is longer than the budget: len(chunk) / 4 <= max_tokens
ChunksWithinBudget == \A i \in 1..Len(fn.out) : Len(fn.out[i]) <= 4 * fn.args.max_tokens

\* C19: chunk_text returns the chunks in the order of the text and no chunk
\* exceeds the token budget, also when one sentence or paragraph is longer
\* than the budget.
C19_ChunksInOrderWithinBudget ==
    (fn.op = "chunk_text" /\ fn.done) => (ChunksInOrder /\ ChunksWithinBudget)

\* the tokens of a text: its maximal runs without whitespace, lower-cased
TokenSet(text) ==
    {lower(SubSeq(text, i, j)) : <<i, j>> \in
        {r \in (1..Len(text)) \X (1..Len(text)) :
            /\ r[1] <= r[2]
            /\ \A n \in r[1]..r[2] : text[n] \notin WhitespaceRuns
            /\ (r[1] = 1 \/ text[r[1] - 1] \in WhitespaceRuns)
            /\ (r[2] = Len(text) \/ text[r[2] + 1] \in WhitespaceRuns)}}

\* the Jaccard similarity of the token sets is strictly greater than the
\* threshold (a percentage)
JaccardAbove(a, b, threshold) ==
    /\ TokenSet(a) \cup TokenSet(b) # {}
    /\ 100 * Cardinality(TokenSet(a) \cap TokenSet(b))
           > threshold * Cardinality(TokenSet(a) \cup TokenSet(b))

\* both normalised texts are long and one contains the other
LongAndContained(a, b) ==
    /\ str_len(normalize(a)) > 50
    /\ str_len(normalize(b)) > 50
    /\ \/ contains(normalize(a), normalize(b))
       \/ contains(normalize(b), normalize(a))

StatedSimilar(a, b, threshold) ==
    \/ normalize(a) = normalize(b)
    \/ JaccardAbove(a, b, threshold)
    \/ LongAndContained(a, b)

UnderGuidedFlow(context_path) == context_path # <<>> /\ Head(context_path) \in GuidedFlows

NoPrivateCollection(st, user_id) ==
    \A p \in st : p.collection # user_docs_collection(user_id)

\* the search of the private documents fails by the primary and by the
\* alternative method
PrivateSearchFails(raised) == raised = RaisingSearches

\* the candidates route fetches from the shared collection
SharedFetched(st, user_profile, mode, env) ==
    IF ~env.embed_ok THEN <<>>
    ELSE search_with_diversity(st, SharedCollection, profile_user_id(user_profile),
                               (IF mode = "blend" THEN 3 ELSE 6) \div 2, 2, env.qdr_ok)

\* C18: when the search of the caller's private documents fails by the
\* primary and by the alternative method, or the private collection does not
\* exist, route returns the candidates it fetched from the shared collection.
C18_PrivateFailureKeepsShared ==
    (/\ rt.called
     /\ profile_user_id(rt.user_profile) # "public"
     /\ \/ PrivateSearchFails(rt.raised)
        \/ NoPrivateCollection(qdrant, profile_user_id(rt.user_profile)))
    => rt.out.results = SharedFetched(qdrant, rt.user_profile, rt.out.mode, services)

StringFacts == {"role", "diagnosis_status", "child_age", "child_name"}

\* every fact set in profile p is set in profile q
FactsRetained(p, q) ==
    /\ \A k \in StringFacts : p[k] # "" => q[k] # ""
    /\ SeqToSet(p.concerns) \subseteq SeqToSet(q.concerns)

\* The code keeps no confidence with a fact.  Its only preference among the
\* extractions of the diagnosis status is the order in which it looks for
\* them: the phrases of a diagnosis first, those of no diagnosis second.
DiagnosisRank(status) == IF status = "diagnosed_yes" THEN 1 ELSE 2

\* C21: a fact of the user profile that is set stays set over every call of
\* process_user_response, and its value is overwritten only by a later
\* extraction of higher confidence.
C21_FactsRetainedUnlessMoreConfident ==
    [][turn'.op = "process_user_response"
       => \A id \in ManagerIds :
            LET p == managers[id].user_profile
                q == managers'[id].user_profile
            IN /\ FactsRetained(p, q)
               /\ (p.diagnosis_status # "" /\ q.diagnosis_status # p.diagnosis_status)
                     => DiagnosisRank(q.diagnosis_status) < DiagnosisRank(p.diagnosis_status)]_vars

\* the last entry of the history is the assistant turn that the call returned
LastEntryIsReturned(history, ret) ==
    /\ history # <<>>
    /\ history[Len(history)].role = "assistant"
    /\ history[Len(history)].content = ret.response
    /\ history[Len(history)].context_path = ret.context_path

\* C23: when a call of process_user_response returns, the last entry of the
\* conversation history is an assistant turn whose content is the returned
\* response and whose context path is the returned context path.
C23_ReturnedTurnRecorded ==
    turn.op = "process_user_response"
    => LastEntryIsReturned(ManagerOf(turn.session).conversation_history, turn.ret)

\* the path is matched by the input: its name occurs in the input, or it is
\* the next path of a route of the current node one of whose keywords does
PathMatched(context_path, user_input, path) ==
    \/ path_in_text(path, user_input)
    \/ /\ get_node(context_path).kind = "dict"
       /\ \E i \in 1..Len(matching_routes(get_node(context_path).key, user_input)) :
             matching_routes(get_node(context_path).key, user_input)[i].next_path = path

\* the available paths of the manager's current node that the input matches
MatchedAvailablePaths(m, user_input) ==
    {path \in m.available_paths : PathMatched(m.current_context_path, user_input, path)}

\* C24: the new context path of a call of process_user_response is the
\* selected path when one is given; otherwise a path matched by the input
\* among the available paths of the current node; and the current context
\* path when nothing matches.
C24_NextContextPath ==
    [][(turn'.op = "process_user_response" /\ turn'.raised = "")
       => LET current == ManagerOf(turn'.session).current_context_path
              new == ManagerOf(turn'.session)'.current_context_path
              matched == MatchedAvailablePaths(ManagerOf(turn'.session), turn'.user_input)
          IN IF turn'.selected_path # <<>> THEN new = turn'.selected_path
             ELSE IF matched # {} THEN new \in matched
             ELSE new = current]_vars

\* the conversation tree's own paths: the five main categories, the
\* next_path of their routes and their branches
TreePaths ==
    MainFivePaths
    \cup UNION {{TreeRoutes(k)[i].next_path : i \in 1..Len(TreeRoutes(k))} : k \in TopKeys}
    \cup UNION {SeqToSet(TreeBranches(k)) : k \in TopKeys}

\* a turn that carries a routing mode (neither a safety warning nor the
\* apology of the except branch, which carry none and "error")
CarriesRoutingMode(ret) == ret.mode \notin {"", "error"}

\* C29: in a session of start_conversation followed by process_user_response
\* calls without selected_path the context path stays among the conversation
\* tree's own paths, every routing mode is vector_only and blend is never
\* produced.  Stated step by step: start_conversation leaves a tree path, and
\* a turn without selected_path that starts from a tree path ends on a tree
\* path with the mode vector_only.
C29_TreePathsVectorOnly ==
    [][/\ turn'.op = "start_conversation"
          => ManagerOf(turn'.session)'.current_context_path \in TreePaths
       /\ (/\ turn'.op = "process_user_response"
           /\ turn'.selected_path = <<>>
           /\ ManagerOf(turn'.session).current_context_path \in TreePaths)
          => /\ ManagerOf(turn'.session)'.current_context_path \in TreePaths
             /\ turn'.ret.context_path \in TreePaths
             /\ turn'.ret.mode # "blend"
             /\ CarriesRoutingMode(turn'.ret) => turn'.ret.mode = "vector_only"]_vars

\* a turn without selected_path, in a history that start_conversation opened
\* and that holds no selected path, has moved from the initial context to a
\* child path of the tree with the mode vector_only
C29_Witness ==
    /\ turn.op = "process_user_response"
    /\ turn.selected_path = <<>>
    /\ turn.ret.mode = "vector_only"
    /\ turn.ret.context_path \in TreePaths
    /\ Len(turn.ret.context_path) = 2
    /\ LET history == ManagerOf(turn.session).conversation_history
       IN /\ history # <<>>
          /\ history[1].role = "assistant"
          /\ history[1].context_path # turn.ret.context_path
          /\ \A i \in 1..Len(history) :
                history[i].role = "user" => Head(history[i].content) # "Navigate"

\* C27: when the context path has no node in the structured store but the
\* candidate results are non-empty, whether they hold private hits or only
\* shared ones, synthesize_response does not return the generic fallback.
C27_CandidatesPreventFallback ==
    (syn.done /\ ~NodeInStore(syn.context_path) /\ syn.vector_results # <<>>)
    => /\ syn.out.response \notin CannedFallbacks
       /\ syn.out.confidence # 50

\* the chunks of a user's private collection stored under a filename
document_chunks(st, user_id, filename) == {p \in user_chunks(st, user_id) : p.filename = filename}

\* C26: delete_user_document(user_id, filename) removes every chunk stored
\* under the filename in the user's private collection and returns True, and
\* leaves every other chunk unchanged; it returns False only when no chunk
\* with the filename exists or the vector store is unavailable.
C26_DeleteUserDocument ==
    [][call'.op = "delete_user_document"
       => /\ (document_chunks(qdrant, call'.user_id, call'.filename) # {} /\ services.qdr_ok)
             => /\ call'.ok
                /\ document_chunks(qdrant', call'.user_id, call'.filename) = {}
          /\ qdrant' \ document_chunks(qdrant, call'.user_id, call'.filename)
               = qdrant \ document_chunks(qdrant, call'.user_id, call'.filename)]_vars

\* C28: every point stored by ingest_user_documents pairs the payload of a
\* chunk with the embedding of that same chunk, whichever embedding batches
\* failed.
C28_PayloadMatchesEmbedding ==
    (fn.op = "ingest_points" /\ fn.done)
    => \A i \in 1..Len(fn.out) :
          fn.out[i].vector = embedding_of(embedding_text(fn.out[i].payload))

(***************************************************************************)
(* Specification SpecConcurrent: two processes call ingest_user_documents  *)
(* at the same time.  The function holds no lock and the store gives no    *)
(* transaction over scroll and upsert, so that the calls of one run are    *)
(* interleaved with those of the other; what a run computes between its    *)
(* scroll and its upsert depends on nothing but what the scroll returned.  *)
(***************************************************************************)
ConcurrentUsers == {"u1", "default"}

ConcurrentInit ==
    /\ qdrant = KbPoints
    /\ next_id = 1
    /\ services \in StoreEnvs
    /\ runs = NoRuns
    /\ sessions = NoSessions
    /\ call = NoCall
    /\ fn = NoFn
    /\ syn = NoSynth
    /\ rt = NoRoute
    /\ managers = NoManagers
    /\ turn = NoTurn

\* lines 107-141: ensure_collection, then the scroll of the user's collection
RunScroll(r, user_id, docs_dir) ==
    /\ runs[r].pc = "idle"
    /\ runs' = [runs EXCEPT ![r] =
                   IF ~services.qdr_ok
                   THEN [pc |-> "done", user_id |-> user_id, docs_dir |-> docs_dir,
                         existing |-> {}, count |-> 0]
                   ELSE [pc |-> "scrolled", user_id |-> user_id, docs_dir |-> docs_dir,
                         existing |-> scroll_existing(qdrant, user_id), count |-> 0]]
    /\ UNCHANGED <<syn, rt, qdrant, next_id, services, managers, turn, sessions, call, fn>>

\* lines 143-262: the files processed against what the scroll returned, the
\* embeddings, the upsert
RunUpsert(r) ==
    /\ runs[r].pc = "scrolled"
    /\ \E res \in {ingest_scrolled(runs[r].existing, qdrant, next_id, runs[r].user_id,
                                     runs[r].docs_dir, services)} :
          /\ qdrant' = res.st
          /\ next_id' = res.n
          /\ runs' = [runs EXCEPT ![r].pc = "done", ![r].count = res.count]
    /\ UNCHANGED <<syn, rt, services, managers, turn, sessions, call, fn>>

ConcurrentNext ==
    \/ \E r \in RunIds, user_id \in ConcurrentUsers, d \in DocsDirs : RunScroll(r, user_id, d)
    \/ \E r \in RunIds : RunUpsert(r)

SpecConcurrent == ConcurrentInit /\ [][ConcurrentNext]_vars

\* the chunks a single run of ingest_user_documents leaves in the user's
\* collection of the initial store
single_run_chunks(user_id, docs_dir, e) ==
    user_chunks(ingest_user_documents(KbPoints, 1, user_id, docs_dir, e).st, user_id)

\* the payload of a point: its filename and its chunk
chunk_payloads(points) == {[filename |-> p.filename, content |-> p.content] : p \in points}

\* C25: whatever the interleaving of two concurrent ingest_user_documents
\* runs of the same documents for the same user, the collection holds the
\* chunks that a single run leaves: the same payloads, each of them once.
C25_ConcurrentIngestAsSingleRun ==
    \A r1, r2 \in RunIds :
        (/\ r1 # r2
         /\ runs[r1].pc = "done" /\ runs[r2].pc = "done"
         /\ runs[r1].user_id = runs[r2].user_id
         /\ runs[r1].docs_dir = runs[r2].docs_dir)
        => LET stored == user_chunks(qdrant, runs[r1].user_id)
               single == single_run_chunks(runs[r1].user_id, runs[r1].docs_dir, services)
           IN /\ chunk_payloads(stored) = chunk_payloads(single)
              /\ Cardinality(stored) = Cardinality(single)

\* the value reached from a dictionary by a sequence of keys, a plain value
\* when a key is missing on the way
RECURSIVE is_key_path(_, _)
is_key_path(value, path) ==
    \/ path = <<>>
    \/ /\ value.kind = "dict"
       /\ has_key(value, Head(path))
       /\ is_key_path(get_dict(value, Head(path)), Tail(path))

\* C22: in the documents that build_enhanced_flat_structure produces no two
\* documents share a context_path, and every context_path is the sequence of
\* the keys from the root of the file to a node.
C22_ContextPathUniqueKey ==
    (fn.op = "build_enhanced_flat_structure" /\ fn.done)
    => /\ \A i, j \in 1..Len(fn.out) :
             i # j => fn.out[i].context_path # fn.out[j].context_path
       /\ \A i \in 1..Len(fn.out) :
             is_key_path(fn.args.structured_data, fn.out[i].context_path)

(***************************************************************************)
(* Specification SpecMemory: the calls of a ConversationMemoryManager.     *)
(***************************************************************************)
MaxMemories == 4

MemoryUsers == {"u1", "default"}
MemoryLimits == {1, 3, 5}

\* a user message, and an assistant message that holds a strategy indicator
MemoryMessages ==
    { HistoryEntry("user", <<"worried", "about", "speech", "therapy">>, <<>>, <<>>, <<>>),
      HistoryEntry("assistant", <<"visual", "schedules", "helped">>, <<"treatment">>,
                   <<>>, <<>>) }

MemoryConversations == {<<m>> : m \in MemoryMessages}

MemoryCall(op, user_id, results, context) ==
    [op |-> op, user_id |-> user_id, results |-> results, context |-> context]

MemoryInit ==
    /\ qdrant = KbPoints
    /\ next_id = 1
    /\ services \in StoreEnvs
    /\ call = NoCall
    /\ runs = NoRuns
    /\ sessions = NoSessions
    /\ fn = NoFn
    /\ syn = NoSynth
    /\ rt = NoRoute
    /\ managers = NoManagers
    /\ turn = NoTurn

StoreChatMessage(user_id, message) ==
    /\ \E r \in {store_chat_message(qdrant, next_id, user_id, message, services)} :
          /\ r.n - 1 <= MaxMemories
          /\ qdrant' = r.st
          /\ next_id' = r.n
    /\ call' = MemoryCall("store_chat_message", user_id, <<>>, <<>>)
    /\ UNCHANGED <<syn, rt, services, managers, turn, sessions, fn, runs>>

ExtractAndStoreInsights(user_id, conversation) ==
    /\ \E r \in {extract_and_store_insights(qdrant, next_id, user_id, conversation, services)} :
          /\ r.n - 1 <= MaxMemories
          /\ qdrant' = r.st
          /\ next_id' = r.n
    /\ call' = MemoryCall("extract_and_store_insights", user_id, <<>>, <<>>)
    /\ UNCHANGED <<syn, rt, services, managers, turn, sessions, fn, runs>>

\* results is what the similarity search of the call returned
RetrieveRelevantContext(user_id, limit) ==
    /\ call' = MemoryCall("retrieve_relevant_context", user_id,
                          search_conversation_memory(qdrant, user_id, "", limit, services),
                          retrieve_relevant_context(qdrant, user_id, limit, services))
    /\ UNCHANGED <<syn, rt, qdrant, next_id, services, managers, turn, sessions, fn, runs>>

MemoryNext ==
    \/ \E user_id \in MemoryUsers, m \in MemoryMessages : StoreChatMessage(user_id, m)
    \/ \E user_id \in MemoryUsers, c \in MemoryConversations :
          ExtractAndStoreInsights(user_id, c)
    \/ \E user_id \in MemoryUsers, k \in MemoryLimits : RetrieveRelevantContext(user_id, k)

SpecMemory == MemoryInit /\ [][MemoryNext]_vars

\* the category of the returned dictionary that belongs to a memory type
CategoryOf(memory_type) == IF memory_type = "prefs" THEN "preferences" ELSE memory_type

\* C30: a record stored under one of the four memory types that the
\* similarity search returns is included by retrieve_relevant_context in the
\* category of its type.
C30_MemoryRoundTrip ==
    call.op = "retrieve_relevant_context"
    => \A i \in 1..Len(call.results) :
          call.results[i].type \in {MemoryTypes[k] : k \in 1..4}
          => \E j \in 1..Len(call.context[CategoryOf(call.results[i].type)]) :
                call.context[CategoryOf(call.results[i].type)][j].id = call.results[i].id

====
